---------------------------- MODULE Spec2Model ----------------------------
(***************************************************************************)
(* A model of the alchemy-logging C++ core (src/src/cpp): the channel      *)
(* registry singleton, its filters, sinks and formatters, and the calls    *)
(* threads make into it.                                                    *)
(*                                                                         *)
(* Strings the code inspects character by character (filter specs, level  *)
(* names, channel names, messages) are sequences of one-character strings, *)
(* so that split and ParseLevel are computed as the code computes them.    *)
(* JSON objects are functions from key strings to values.                  *)
(***************************************************************************)
EXTENDS Integers, Sequences, FiniteSets, TLC

(***************************************************************************)
(* Bounds of the model.                                                     *)
(***************************************************************************)
MaxPieces == 6        \* pieces concatenated into a filter spec string
MaxSinks == 2         \* length of m_sinks
MaxLines == 1         \* a log call starts only while every stream holds fewer lines
MaxIndent == 1        \* addIndent is called only below this depth

(***************************************************************************)
(* enum ELogLevels (logger.hpp:73-86)                                       *)
(***************************************************************************)
off == 0
fatal == 1
error == 2
warning == 3
info == 4
trace == 5
debug == 6
debug1 == 7
debug2 == 8
debug3 == 9
debug4 == 10

ELogLevels == off..debug4

\* The strings ParseLevel compares with, in enum order (LevelToHumanString's table).
LevelStrings ==
  << <<"o","f","f">>,
     <<"f","a","t","a","l">>,
     <<"e","r","r","o","r">>,
     <<"w","a","r","n","i","n","g">>,
     <<"i","n","f","o">>,
     <<"t","r","a","c","e">>,
     <<"d","e","b","u","g">>,
     <<"d","e","b","u","g","1">>,
     <<"d","e","b","u","g","2">>,
     <<"d","e","b","u","g","3">>,
     <<"d","e","b","u","g","4">> >>

LevelToHumanString(a_level) == LevelStrings[a_level + 1]

(***************************************************************************)
(* split (logger.cpp:54-68): std::getline in a loop.  getline fails, and   *)
(* the loop ends, when no character is left: a delimiter that ends the     *)
(* string yields no empty last item.                                        *)
(***************************************************************************)
RECURSIVE split(_, _)
split(s, delim) ==
  IF s = <<>> THEN <<>>
  ELSE IF \E k \in 1..Len(s) : s[k] = delim
       THEN LET k == CHOOSE i \in 1..Len(s) :
                       s[i] = delim /\ \A j \in 1..(i-1) : s[j] # delim
            IN  <<SubSeq(s, 1, k-1)>> \o split(SubSeq(s, k+1, Len(s)), delim)
       ELSE <<s>>

(***************************************************************************)
(* ParseLevel (logger.cpp:233-253): exact comparison with the eleven names,*)
(* std::runtime_error otherwise.                                            *)
(***************************************************************************)
ParseLevelThrows(a_str) == \A i \in 1..Len(LevelStrings) : LevelStrings[i] # a_str

ParseLevel(a_str) == (CHOOSE i \in 1..Len(LevelStrings) : LevelStrings[i] = a_str) - 1

\* out[key] = value on the unordered_map
MapSet(m, k, v) == [x \in (DOMAIN m) \cup {k} |-> IF x = k THEN v ELSE m[x]]

\* A FilterMap with no entry.
NoFilters == [x \in {} |-> off]

(***************************************************************************)
(* parseFilterSpec (logger.cpp:70-92).  The empty spec returns {{}}: a     *)
(* FilterMap list-initialised from one value-initialised pair, i.e. the    *)
(* single entry "" -> off.  Otherwise every comma-separated item must split*)
(* into two items on ':' and its second item must parse as a level.        *)
(***************************************************************************)
PairThrows(spec_pair) ==
  LET subSplitVec == split(spec_pair, ":")
  IN  Len(subSplitVec) # 2 \/ ParseLevelThrows(subSplitVec[2])

parseFilterSpecThrows(a_spec) ==
  /\ a_spec # <<>>
  /\ LET splitVec == split(a_spec, ",")
     IN  \E i \in 1..Len(splitVec) : PairThrows(splitVec[i])

RECURSIVE parseFilterPairs(_, _)
parseFilterPairs(splitVec, out) ==
  IF splitVec = <<>> THEN out
  ELSE LET subSplitVec == split(Head(splitVec), ":")
       IN  parseFilterPairs(Tail(splitVec),
                            MapSet(out, subSplitVec[1], ParseLevel(subSplitVec[2])))

parseFilterSpec(a_spec) ==
  IF a_spec = <<>> THEN MapSet(NoFilters, <<>>, off)
  ELSE parseFilterPairs(split(a_spec, ","), NoFilters)

(***************************************************************************)
(* CLogChannelRegistrySingleton::filter (logger.cpp:434-444)               *)
(***************************************************************************)
\* Variants: the off check dropped; the comparison made strict.
filterThrows_dropped(a_level) == FALSE

filter_strict(filters, defaultLevel, a_channel, a_level) ==
  (IF a_channel \in DOMAIN filters THEN filters[a_channel] ELSE defaultLevel) > a_level

filterThrows(a_level) == a_level = off

filter(filters, defaultLevel, a_channel, a_level) ==
  (IF a_channel \in DOMAIN filters THEN filters[a_channel] ELSE defaultLevel) >= a_level


(***************************************************************************)
(* setupFilters (logger.cpp:384-390), the whole call: m_filters is assigned*)
(* before a_defaultLevelSpec is parsed, so a throw of the second ParseLevel*)
(* leaves the new filter map in place.  The lock_guard is released on      *)
(* return and on throw alike.                                               *)
(***************************************************************************)
setupFilters(filters, defaultLevel, a_filterSpec, a_defaultLevelSpec) ==
  IF parseFilterSpecThrows(a_filterSpec)
  THEN [filters |-> filters, defaultLevel |-> defaultLevel, thrown |-> TRUE]
  ELSE IF ParseLevelThrows(a_defaultLevelSpec)
       THEN [filters |-> parseFilterSpec(a_filterSpec),
             defaultLevel |-> defaultLevel, thrown |-> TRUE]
       ELSE [filters |-> parseFilterSpec(a_filterSpec),
             defaultLevel |-> ParseLevel(a_defaultLevelSpec), thrown |-> FALSE]

(***************************************************************************)
(* Identities                                                               *)
(***************************************************************************)
Threads == {"t1", "t2"}         \* std::thread::id of the calling threads
NoThread == "none"              \* owner of an unlocked std::mutex
MainThread == "t1"              \* the caller in the single-threaded specifications
Streams == {"s1", "s2"}         \* the std::ostream objects handed to addSink
StdFormatter == "CStdLogFormatter"
JSONFormatter == "CJSONLogFormatter"
NullFormatter == "nullptr"
\* The registry objects are numbered in the order `new` makes them; an empty
\* shared_ptr owns none.
NullInstance == 0
\* Names of the std::mutex objects the CSinks allocate: enough for the sinks of
\* the vector and for those a thread still iterates over after a reset().
MutexIds == 1..(MaxSinks * (Cardinality(Threads) + 1))

(***************************************************************************)
(* State: the members of CLogChannelRegistrySingleton (logger.hpp:231-256),*)
(* the sinks' mutexes and streams, and each thread's position.             *)
(***************************************************************************)
VARIABLES
  m_filters,        \* FilterMap: channel -> ELogLevels
  m_defaultLevel,   \* ELogLevels
  m_doThreadLog,    \* bool
  m_doMetadata,     \* bool
  m_serviceName,    \* std::string
  m_mutex,          \* the thread that holds the registry mutex, or NoThread
  m_sinks,          \* std::vector<CSink>: sequence of [sink: stream, m: mutex id]
  m_formatter,      \* which formatter the shared_ptr points to
  m_indents,        \* ThreadIndentMap: thread -> unsigned
  m_metadata,       \* ThreadMetadataMap: thread -> json object
  sinkMutex,        \* mutex id -> the thread that holds that CSink::m, or NoThread
  writing,          \* stream -> the threads that are inside operator<< on it
  streams,          \* stream -> the lines it has received
  pc,               \* thread -> its position in the call it is making
  frame,            \* thread -> the locals of that call
  call,             \* the last completed call of the single-threaded caller
  scopes,           \* thread -> the scope guards alive on its stack, innermost last
  now,              \* std::chrono::high_resolution_clock::now(), in ns since its epoch
  m_pInstance       \* the static shared_ptr: the registry object it owns, or NullInstance

cfgVars == <<m_filters, m_defaultLevel>>
flagVars == <<m_doThreadLog, m_doMetadata, m_serviceName>>
tlsVars == <<m_indents, m_metadata>>
sinkVars == <<m_sinks, sinkMutex, writing, streams>>
threadVars == <<pc, frame>>
vars == <<m_filters, m_defaultLevel, m_doThreadLog, m_doMetadata, m_serviceName,
          m_mutex, m_sinks, m_formatter, m_indents, m_metadata, sinkMutex,
          writing, streams, pc, frame, call, scopes, now, m_pInstance>>

EmptyMap == [x \in {} |-> 0]     \* nlohmann::json{} / an empty object
\* The locals of a call in progress; the fields a call does not use keep these values.
IdleFrame ==
  [op |-> "none", a_channel |-> <<>>, a_level |-> off, a_msg |-> <<>>,
   a_filterSpec |-> <<>>, a_defaultLevelSpec |-> <<>>, a_sink |-> "none",
   iter |-> -1, ret |-> FALSE, thrown |-> FALSE,
   entry |-> <<>>, lines |-> <<>>, i |-> 0, sinks |-> <<>>, k |-> 0,
   m |-> 0, sink |-> "none",
   preFilters |-> NoFilters, preDefaultLevel |-> off,
   configs |-> {}, sinksAtCall |-> <<>>, written |-> {},
   a_key |-> "none", a_value |-> 0, depth |-> 0, metadata |-> <<>>,
   macro |-> "none", currentlyEnabled |-> FALSE,
   instance |-> NullInstance, method |-> "none", dropped |-> FALSE]
NoCall ==
  [op |-> "none", a_filterSpec |-> <<>>, a_defaultLevelSpec |-> <<>>,
   a_channel |-> <<>>, a_level |-> off, thrown |-> FALSE, ret |-> FALSE,
   preFilters |-> NoFilters, preDefaultLevel |-> off, entry |-> FALSE,
   lines |-> <<>>, guard |-> <<>>, a_mapData |-> <<>>, a_key |-> "none",
   preMetadata |-> <<>>, preDoMetadata |-> FALSE, kind |-> "none",
   preStreams |-> <<>>, a_msg |-> <<>>, val |-> 0, conditional |-> FALSE,
   a_entry |-> <<>>, out |-> <<>>]

(***************************************************************************)
(* The registry after instance() has constructed it (logger.hpp:222-226,   *)
(* logger.cpp:374-382): default level off, flags false, the standard       *)
(* formatter installed, nothing else.                                       *)
(***************************************************************************)
RegistryWith(filters, defaultLevel) ==
  /\ m_filters = filters
  /\ m_defaultLevel = defaultLevel
  /\ m_doThreadLog = FALSE
  /\ m_doMetadata = FALSE
  /\ m_serviceName = <<>>
  /\ m_mutex = NoThread
  /\ m_sinks = <<>>
  /\ m_formatter = StdFormatter
  /\ m_indents = [t \in {} |-> 0]
  /\ m_metadata = [t \in {} |-> EmptyMap]
  /\ sinkMutex = [i \in MutexIds |-> NoThread]
  /\ writing = [s \in Streams |-> {}]
  /\ streams = [s \in Streams |-> <<>>]
  /\ pc = [t \in Threads |-> "idle"]
  /\ frame = [t \in Threads |-> IdleFrame]
  /\ scopes = [t \in Threads |-> <<>>]
  /\ now = 0
  /\ m_pInstance = 1

RegistryInit == RegistryWith(NoFilters, off)

(***************************************************************************)
(* Input strings.  A filter spec is a concatenation of at most MaxPieces   *)
(* pieces; the pieces give channel characters, both delimiters, a level    *)
(* name and a character that spoils one.                                    *)
(***************************************************************************)
Pieces == { <<"A">>, <<":">>, <<",">>, LevelToHumanString(info), <<"x">> }

RECURSIVE Concats(_)
Concats(n) ==
  IF n = 0 THEN { <<>> }
  ELSE LET shorter == Concats(n - 1)
       IN  shorter \cup { s \o p : s \in shorter, p \in Pieces }

FilterSpecInputs == Concats(MaxPieces)
LevelSpecInputs == { LevelToHumanString(off), LevelToHumanString(info),
                     LevelToHumanString(debug4), <<"x">>, <<>>,
                     <<"I","N","F","O">> }

(***************************************************************************)
(* SpecParse: setupFilters applied once to a fresh registry, for every     *)
(* filter spec and default-level spec of the input sets.                   *)
(***************************************************************************)
InitParse ==
  /\ RegistryInit
  /\ \E s \in FilterSpecInputs, d \in LevelSpecInputs :
       call = [NoCall EXCEPT !.op = "pending", !.a_filterSpec = s,
                             !.a_defaultLevelSpec = d]

SetupFiltersApply ==
  /\ call.op = "pending"
  /\ LET r == setupFilters(m_filters, m_defaultLevel,
                           call.a_filterSpec, call.a_defaultLevelSpec)
     IN  /\ m_filters' = r.filters
         /\ m_defaultLevel' = r.defaultLevel
         /\ call' = [call EXCEPT !.op = "setupFilters", !.thrown = r.thrown,
                                 !.preFilters = m_filters,
                                 !.preDefaultLevel = m_defaultLevel]
  /\ UNCHANGED <<flagVars, m_mutex, m_formatter, tlsVars, sinkVars, threadVars, scopes, now, m_pInstance>>

NextParse == SetupFiltersApply

SpecParse == InitParse /\ [][NextParse]_vars

(***************************************************************************)
(* CLogEntry (logger.hpp:90-104, logger.cpp:255-267): the service name and *)
(* the calling thread's indent are read from the registry at construction. *)
(***************************************************************************)
MAX_CHANNEL_LENGTH == 5

getTimestamp == "YYYY-MM-DDTHH:MM:SS.mmmZ"

getIndent(indents, tid) == IF tid \in DOMAIN indents THEN indents[tid] ELSE 0

CLogEntry(a_channel, a_level, a_message, a_mapData, serviceName, nIndent, tid) ==
  [channel |-> a_channel, level |-> a_level, message |-> a_message,
   timestamp |-> getTimestamp, serviceName |-> serviceName, nIndent |-> nIndent,
   threadId |-> tid, mapData |-> a_mapData]

\* std::string::resize(n, ' ')
Resize(str, n) ==
  IF Len(str) >= n THEN SubSeq(str, 1, n)
  ELSE str \o [i \in 1..(n - Len(str)) |-> " "]

(***************************************************************************)
(* CStdLogFormatter (logger.cpp:271-330).  A line is its header and what   *)
(* follows it: a segment of the message, or one key of the map.            *)
(***************************************************************************)
getHeader(a_entry, threadIDEnabled) ==
  [timestamp |-> a_entry.timestamp,
   serviceName |-> a_entry.serviceName,
   channel |-> Resize(a_entry.channel, MAX_CHANNEL_LENGTH),
   level |-> a_entry.level,
   threadId |-> IF threadIDEnabled THEN a_entry.threadId ELSE NoThread,
   nIndent |-> a_entry.nIndent]

\* The keys of json objects, in the order std::map iterates them.
JsonKeys == <<"channel", "duration_ms", "foo", "level_str", "message", "metadata",
              "num_indent", "service_name", "thread_id", "timestamp">>

RECURSIVE addPrettyPrintMap(_, _, _)
addPrettyPrintMap(a_map, a_format, i) ==
  IF i > Len(JsonKeys) THEN <<>>
  ELSE (IF JsonKeys[i] \in DOMAIN a_map
        THEN << [header |-> a_format, key |-> JsonKeys[i], value |-> a_map[JsonKeys[i]]] >>
        ELSE <<>>) \o addPrettyPrintMap(a_map, a_format, i + 1)

\* Variant: the message is one line, whatever newlines it has.
CStdLogFormatter_formatEntry_nosplit(a_entry, threadIDEnabled) ==
  LET format == getHeader(a_entry, threadIDEnabled)
  IN  << [header |-> format, text |-> a_entry.message] >>
        \o (IF DOMAIN a_entry.mapData # {}
            THEN addPrettyPrintMap(a_entry.mapData, format, 1)
            ELSE <<>>)

\* Variant: an empty message gives one line with an empty text.
CStdLogFormatter_formatEntry_blank(a_entry, threadIDEnabled) ==
  LET splitVec == IF a_entry.message = <<>> THEN << <<>> >>
                  ELSE split(a_entry.message, "\n")
      format == getHeader(a_entry, threadIDEnabled)
  IN  [i \in 1..Len(splitVec) |-> [header |-> format, text |-> splitVec[i]]]
        \o (IF DOMAIN a_entry.mapData # {}
            THEN addPrettyPrintMap(a_entry.mapData, format, 1)
            ELSE <<>>)

CStdLogFormatter_formatEntry(a_entry, threadIDEnabled) ==
  LET splitVec == split(a_entry.message, "\n")
      format == getHeader(a_entry, threadIDEnabled)
  IN  [i \in 1..Len(splitVec) |-> [header |-> format, text |-> splitVec[i]]]
        \o (IF DOMAIN a_entry.mapData # {}
            THEN addPrettyPrintMap(a_entry.mapData, format, 1)
            ELSE <<>>)

(***************************************************************************)
(* CJSONLogFormatter (logger.cpp:334-368): one line, the dumped object.    *)
(***************************************************************************)
\* Variant: a key of the entry's map keeps its value.
CJSONLogFormatter_formatEntry_mapWins(a_entry, threadIDEnabled) ==
  LET Keep(j, key, value) == IF key \in DOMAIN a_entry.mapData THEN j
                             ELSE MapSet(j, key, value)
      j0 == Keep(Keep(Keep(Keep(a_entry.mapData,
                "channel", a_entry.channel),
                "level_str", LevelToHumanString(a_entry.level)),
                "timestamp", a_entry.timestamp),
                "num_indent", a_entry.nIndent)
      j1 == IF a_entry.message # <<>> THEN Keep(j0, "message", a_entry.message) ELSE j0
      j2 == IF threadIDEnabled THEN Keep(j1, "thread_id", a_entry.threadId) ELSE j1
      j3 == IF a_entry.serviceName # <<>>
            THEN Keep(j2, "service_name", a_entry.serviceName) ELSE j2
  IN  << [json |-> j3] >>

\* Variant: the message is set also when it is empty.
CJSONLogFormatter_formatEntry_message(a_entry, threadIDEnabled) ==
  LET j0 == MapSet(MapSet(MapSet(MapSet(a_entry.mapData,
                "channel", a_entry.channel),
                "level_str", LevelToHumanString(a_entry.level)),
                "timestamp", a_entry.timestamp),
                "num_indent", a_entry.nIndent)
      j1 == MapSet(j0, "message", a_entry.message)
      j2 == IF threadIDEnabled THEN MapSet(j1, "thread_id", a_entry.threadId) ELSE j1
      j3 == IF a_entry.serviceName # <<>>
            THEN MapSet(j2, "service_name", a_entry.serviceName) ELSE j2
  IN  << [json |-> j3] >>

CJSONLogFormatter_formatEntry(a_entry, threadIDEnabled) ==
  LET j0 == MapSet(MapSet(MapSet(MapSet(a_entry.mapData,
                "channel", a_entry.channel),
                "level_str", LevelToHumanString(a_entry.level)),
                "timestamp", a_entry.timestamp),
                "num_indent", a_entry.nIndent)
      j1 == IF a_entry.message # <<>> THEN MapSet(j0, "message", a_entry.message) ELSE j0
      j2 == IF threadIDEnabled THEN MapSet(j1, "thread_id", a_entry.threadId) ELSE j1
      j3 == IF a_entry.serviceName # <<>>
            THEN MapSet(j2, "service_name", a_entry.serviceName) ELSE j2
  IN  << [json |-> j3] >>

formatEntry(formatter, a_entry, threadIDEnabled) ==
  IF formatter = JSONFormatter
  THEN CJSONLogFormatter_formatEntry(a_entry, threadIDEnabled)
  ELSE CStdLogFormatter_formatEntry(a_entry, threadIDEnabled)

(***************************************************************************)
(* CLogChannelRegistrySingleton::log (logger.cpp:446-481), run by one      *)
(* thread with no other thread active: the metadata of the calling thread  *)
(* is attached, the entry is built and formatted, and every line goes to   *)
(* every element of m_sinks, line by line and sink by sink.                *)
(***************************************************************************)
\* Variant: the metadata is attached whatever the flag says.
logMapData_always(a_mapData, doMetadata, metadata, tid) ==
  IF tid \in DOMAIN metadata
  THEN MapSet(a_mapData, "metadata", metadata[tid])
  ELSE a_mapData

logMapData(a_mapData, doMetadata, metadata, tid) ==
  IF doMetadata /\ tid \in DOMAIN metadata
  THEN MapSet(a_mapData, "metadata", metadata[tid])
  ELSE a_mapData

RECURSIVE writeLine(_, _, _)
writeLine(line, sinks, strms) ==
  IF sinks = <<>> THEN strms
  ELSE writeLine(line, Tail(sinks),
                 [strms EXCEPT ![Head(sinks).sink] = Append(@, line)])

RECURSIVE writeLines(_, _, _)
writeLines(lines, sinks, strms) ==
  IF lines = <<>> THEN strms
  ELSE writeLines(Tail(lines), sinks, writeLine(Head(lines), sinks, strms))

logLines(tid, a_channel, a_level, a_msg, a_mapData) ==
  formatEntry(m_formatter,
              CLogEntry(a_channel, a_level, a_msg,
                        logMapData(a_mapData, m_doMetadata, m_metadata, tid),
                        m_serviceName, getIndent(m_indents, tid), tid),
              m_doThreadLog)

(***************************************************************************)
(* addSink (logger.cpp:392-396): each call builds a CSink with a mutex of  *)
(* its own (logger.hpp:243-248), also for a stream that is already a sink. *)
(***************************************************************************)
MutexInUse(i) ==
  \/ \E k \in 1..Len(m_sinks) : m_sinks[k].m = i
  \/ (i \in DOMAIN sinkMutex /\ sinkMutex[i] # NoThread)
  \/ \E t \in Threads : \E k \in 1..Len(frame[t].sinks) : frame[t].sinks[k].m = i

NewMutex == CHOOSE i \in MutexIds : ~MutexInUse(i) /\ \A j \in 1..(i-1) : MutexInUse(j)

\* Variant: one mutex shared by all the sinks.
CSink_shared(s) == [sink |-> s, m |-> 1]

CSink(s) == [sink |-> s, m |-> NewMutex]

(***************************************************************************)
(* Spec: one thread (MainThread) calls into the registry, one call at a    *)
(* time, each call run to its end.  `call` records the last call: what was *)
(* asked, whether it threw, what it returned, whether a CLogEntry was      *)
(* built.                                                                   *)
(***************************************************************************)
Str_A_info == <<"A", ":">> \o LevelToHumanString(info)
Str_A_debug4_B_off ==
  <<"A", ":">> \o LevelToHumanString(debug4) \o <<",", "B", ":">> \o LevelToHumanString(off)

SeqFilterSpecs == { <<>>, Str_A_info, Str_A_debug4_B_off, <<"A">> }
SeqLevelSpecs == { LevelToHumanString(off), LevelToHumanString(info),
                   LevelToHumanString(debug4), <<"x">> }
Channels == { <<"A">>, <<"B">>, <<>> }
Messages == { <<"m">>, <<"m", "\n", "n">>, <<>> }
MapDatas == { EmptyMap, MapSet(EmptyMap, "foo", 123) }

SetupFiltersCall(s, d) ==
  /\ LET r == setupFilters(m_filters, m_defaultLevel, s, d)
     IN  /\ m_filters' = r.filters
         /\ m_defaultLevel' = r.defaultLevel
         /\ call' = [NoCall EXCEPT !.op = "setupFilters", !.a_filterSpec = s,
                                   !.a_defaultLevelSpec = d, !.thrown = r.thrown,
                                   !.preFilters = m_filters,
                                   !.preDefaultLevel = m_defaultLevel]
  /\ UNCHANGED <<flagVars, m_mutex, m_formatter, tlsVars, sinkVars, threadVars, scopes, now, m_pInstance>>

\* ALOG_IS_ENABLED (logger.hpp:438-440): a filter call and nothing else.
IsEnabledCall(ch, lvl) ==
  /\ call' = [NoCall EXCEPT !.op = "filter", !.a_channel = ch, !.a_level = lvl,
                            !.thrown = filterThrows(lvl),
                            !.ret = (~filterThrows(lvl)
                                       /\ filter(m_filters, m_defaultLevel, ch, lvl))]
  /\ UNCHANGED <<cfgVars, flagVars, m_mutex, m_formatter, tlsVars, sinkVars, threadVars, scopes, now, m_pInstance>>

\* ALOG_LEVEL_IMPL (logger.hpp:366-372): filter, then log when it returned true.
ALOGCall(ch, lvl, msg, map) ==
  LET thrown == filterThrows(lvl)
      enabled == ~thrown /\ filter(m_filters, m_defaultLevel, ch, lvl)
      built == enabled /\ m_formatter # NullFormatter
      out == IF built
             THEN writeLines(logLines(MainThread, ch, lvl, msg, map), m_sinks, streams)
             ELSE streams
  IN  /\ streams' = out
      /\ call' = [NoCall EXCEPT !.op = "ALOG", !.a_channel = ch, !.a_level = lvl,
                                !.thrown = thrown, !.ret = enabled, !.entry = built,
                                !.a_mapData = map,
                                !.lines = IF built
                                          THEN logLines(MainThread, ch, lvl, msg, map)
                                          ELSE <<>>]
      /\ UNCHANGED <<cfgVars, flagVars, m_mutex, m_formatter, tlsVars,
                     m_sinks, sinkMutex, writing, threadVars, scopes, now, m_pInstance>>

AddSinkCall(st) ==
  /\ Len(m_sinks) < MaxSinks
  /\ m_sinks' = Append(m_sinks, CSink(st))
  /\ call' = [NoCall EXCEPT !.op = "addSink"]
  /\ UNCHANGED <<cfgVars, flagVars, m_mutex, m_formatter, tlsVars,
                 sinkMutex, writing, streams, threadVars, scopes, now, m_pInstance>>

\* setFormatter (logger.cpp:398-402) through UseStdFormatter / UseJSONFormatter
SetFormatterCall(f) ==
  /\ m_formatter' = f
  /\ call' = [NoCall EXCEPT !.op = "setFormatter"]
  /\ UNCHANGED <<cfgVars, flagVars, m_mutex, tlsVars, sinkVars, threadVars, scopes, now, m_pInstance>>

\* reset (logger.cpp:609-619): m_doMetadata and m_metadata are not touched.
ResetCall ==
  /\ m_sinks' = <<>>
  /\ m_filters' = NoFilters
  /\ m_defaultLevel' = off
  /\ m_doThreadLog' = FALSE
  /\ m_serviceName' = <<>>
  /\ m_indents' = [t \in {} |-> 0]
  /\ m_formatter' = StdFormatter
  /\ call' = [NoCall EXCEPT !.op = "reset"]
  /\ UNCHANGED <<m_doMetadata, m_metadata, m_mutex, sinkMutex, writing, streams,
                 threadVars, scopes, now, m_pInstance>>

Init == RegistryInit /\ call = NoCall

(***************************************************************************)
(* SpecFilter: the filter configuration and the filter checks.             *)
(***************************************************************************)
NextFilter ==
  \/ \E s \in SeqFilterSpecs, d \in SeqLevelSpecs : SetupFiltersCall(s, d)
  \/ \E ch \in Channels, lvl \in ELogLevels : IsEnabledCall(ch, lvl)
  \/ ResetCall

SpecFilter == Init /\ [][NextFilter]_vars

(***************************************************************************)
(* Spec: the registry is configured by any sequence of configuration calls *)
(* and then one log call is made, at any level, off included.              *)
(***************************************************************************)
Configuring == call.op # "ALOG"

Next ==
  \/ Configuring /\ \E s \in SeqFilterSpecs, d \in SeqLevelSpecs : SetupFiltersCall(s, d)
  \/ Configuring /\ \E st \in Streams : AddSinkCall(st)
  \/ Configuring /\ \E f \in {StdFormatter, JSONFormatter} : SetFormatterCall(f)
  \/ Configuring /\ ResetCall
  \/ Configuring /\ \E ch \in Channels, lvl \in ELogLevels, msg \in Messages,
                         map \in MapDatas : ALOGCall(ch, lvl, msg, map)

Spec == Init /\ [][Next]_vars

(***************************************************************************)
(* Threads.  From here on every thread of Threads calls into the registry  *)
(* and a call is a sequence of steps: one step per acquisition of a mutex  *)
(* and per access to the shared members, in the order of the code.  pc[t]  *)
(* is the position of thread t, frame[t] its arguments and locals.  A call *)
(* ends at "return", where its result can be read, and Return makes the    *)
(* thread idle again.                                                       *)
(***************************************************************************)
ConcChannels == { <<"A">> }
ConcLevels == { off, info }
ConcMessages == { <<"m">> }
Str_A_debug == <<"A", ":">> \o LevelToHumanString(debug)
ConcSetups == { <<Str_A_debug, LevelToHumanString(off)>>,
                <<<<>>, LevelToHumanString(info)>>,
                <<<<>>, <<"x">>>> }

Config(filters, defaultLevel) == [filters |-> filters, defaultLevel |-> defaultLevel]

\* The configuration in force: while a setupFilters call is between its lock
\* and its unlock, the one it found.
InSetup(t) == pc[t] \in {"setup_filters", "setup_default"}

ConfigInForce ==
  IF \E w \in Threads : InSetup(w)
  THEN LET w == CHOOSE x \in Threads : InSetup(x)
       IN  Config(frame[w].preFilters, frame[w].preDefaultLevel)
  ELSE Config(m_filters, m_defaultLevel)

\* The configurations that setupFilters calls past their lock are bringing
\* into force.
ConfigsComing ==
  { Config(r.filters, r.defaultLevel) :
      r \in { setupFilters(frame[w].preFilters, frame[w].preDefaultLevel,
                           frame[w].a_filterSpec, frame[w].a_defaultLevelSpec) :
                w \in { x \in Threads : InSetup(x) } } }

\* The frames after configuration c has come into force: each filter check in
\* progress has one more configuration it ran under.
ObserveConfig(c) ==
  [x \in Threads |->
     IF pc[x] \in {"filter", "filter_ret"} /\ frame[x].op = "filter"
     THEN [frame[x] EXCEPT !.configs = @ \cup {c}]
     ELSE frame[x]]

\* Inside ALOG_THREAD, the end of ALOG is followed by the rest of the block.
MacroGoesOn(t) ==
  /\ frame[t].macro = "ALOG_THREAD"
  /\ frame[t].op = "ALOG"
  /\ ~frame[t].thrown
  /\ ~frame[t].currentlyEnabled

Return(t) ==
  /\ pc[t] = "return"
  /\ ~MacroGoesOn(t)
  /\ pc' = [pc EXCEPT ![t] = "idle"]
  /\ frame' = [frame EXCEPT ![t] = IdleFrame]
  /\ UNCHANGED <<cfgVars, flagVars, m_mutex, m_formatter, tlsVars, sinkVars, call, scopes, now, m_pInstance>>

(***************************************************************************)
(* ALOG_IS_ENABLED (logger.hpp:438-440) and filter (logger.cpp:434-444).   *)
(* filter takes no lock.  It throws for level off; otherwise find reads    *)
(* m_filters, and the return expression reads the element found or         *)
(* m_defaultLevel.  When the map was assigned in between, the iterator     *)
(* dangles: the element read is the one found or the one the map holds     *)
(* now.                                                                     *)
(***************************************************************************)
CallIsEnabled(t, ch, lvl) ==
  /\ pc[t] = "idle"
  /\ pc' = [pc EXCEPT ![t] = "filter"]
  /\ frame' = [frame EXCEPT ![t] = [IdleFrame EXCEPT !.op = "filter", !.a_channel = ch,
                                                      !.a_level = lvl,
                                                      !.configs = {ConfigInForce}]]
  /\ UNCHANGED <<cfgVars, flagVars, m_mutex, m_formatter, tlsVars, sinkVars, call, scopes, now, m_pInstance>>

FilterFind(t) ==
  /\ pc[t] = "filter"
  /\ IF filterThrows(frame[t].a_level)
     THEN /\ pc' = [pc EXCEPT ![t] = "return"]
          /\ frame' = [frame EXCEPT ![t].thrown = TRUE]
     ELSE /\ pc' = [pc EXCEPT ![t] = "filter_ret"]
          /\ frame' = [frame EXCEPT ![t].iter =
                         IF frame[t].a_channel \in DOMAIN m_filters
                         THEN m_filters[frame[t].a_channel] ELSE -1]
  /\ UNCHANGED <<cfgVars, flagVars, m_mutex, m_formatter, tlsVars, sinkVars, call, scopes, now, m_pInstance>>

FilterRet(t) ==
  /\ pc[t] = "filter_ret"
  /\ \E eff \in (IF frame[t].iter = -1 THEN { m_defaultLevel }
                 ELSE { frame[t].iter } \cup
                      (IF frame[t].a_channel \in DOMAIN m_filters
                       THEN { m_filters[frame[t].a_channel] } ELSE {})) :
       LET ret == eff >= frame[t].a_level
       IN  /\ frame' = [frame EXCEPT ![t].ret = ret,
                                     ![t].configs = IF frame[t].op = "filter"
                                                    THEN @ \cup ConfigsComing ELSE @]
           /\ pc' = [pc EXCEPT ![t] = IF frame[t].op = "ALOG" /\ ret
                                      THEN "log" ELSE "return"]
  /\ UNCHANGED <<cfgVars, flagVars, m_mutex, m_formatter, tlsVars, sinkVars, call, scopes, now, m_pInstance>>

(***************************************************************************)
(* The operations that start with TLock lock(m_mutex).  Lock is the        *)
(* acquisition: it waits until no thread holds m_mutex.                    *)
(***************************************************************************)
BodyPc(op) == IF op = "setupFilters" THEN "setup_filters" ELSE "body"

Lock(t) ==
  /\ pc[t] = "lock"
  /\ m_mutex = NoThread
  /\ m_mutex' = t
  /\ pc' = [pc EXCEPT ![t] = BodyPc(frame[t].op)]
  /\ frame' = [frame EXCEPT ![t].preFilters = m_filters,
                            ![t].preDefaultLevel = m_defaultLevel]
  /\ UNCHANGED <<cfgVars, flagVars, m_formatter, tlsVars, sinkVars, call, scopes, now, m_pInstance>>

(***************************************************************************)
(* setupFilters (logger.cpp:384-390): under the lock, m_filters is         *)
(* assigned, then m_defaultLevel; either parse may throw, which unlocks    *)
(* and leaves what was assigned so far.                                     *)
(***************************************************************************)
CallSetupFilters(t, s, d) ==
  /\ pc[t] = "idle"
  /\ pc' = [pc EXCEPT ![t] = "lock"]
  /\ frame' = [frame EXCEPT ![t] = [IdleFrame EXCEPT !.op = "setupFilters",
                                                      !.a_filterSpec = s,
                                                      !.a_defaultLevelSpec = d]]
  /\ UNCHANGED <<cfgVars, flagVars, m_mutex, m_formatter, tlsVars, sinkVars, call, scopes, now, m_pInstance>>

SetupAssignFilters(t) ==
  /\ pc[t] = "setup_filters"
  /\ IF parseFilterSpecThrows(frame[t].a_filterSpec)
     THEN /\ m_mutex' = NoThread
          /\ pc' = [pc EXCEPT ![t] = "return"]
          /\ frame' = [ObserveConfig(Config(m_filters, m_defaultLevel))
                         EXCEPT ![t].thrown = TRUE]
          /\ UNCHANGED m_filters
     ELSE /\ m_filters' = parseFilterSpec(frame[t].a_filterSpec)
          /\ pc' = [pc EXCEPT ![t] = "setup_default"]
          /\ UNCHANGED <<m_mutex, frame>>
  /\ UNCHANGED <<m_defaultLevel, flagVars, m_formatter, tlsVars, sinkVars, call, scopes, now, m_pInstance>>

SetupAssignDefault(t) ==
  /\ pc[t] = "setup_default"
  /\ IF ParseLevelThrows(frame[t].a_defaultLevelSpec)
     THEN /\ frame' = [ObserveConfig(Config(m_filters, m_defaultLevel))
                         EXCEPT ![t].thrown = TRUE]
          /\ UNCHANGED m_defaultLevel
     ELSE /\ m_defaultLevel' = ParseLevel(frame[t].a_defaultLevelSpec)
          /\ frame' = ObserveConfig(Config(m_filters,
                                           ParseLevel(frame[t].a_defaultLevelSpec)))
  /\ m_mutex' = NoThread
  /\ pc' = [pc EXCEPT ![t] = "return"]
  /\ UNCHANGED <<m_filters, flagVars, m_formatter, tlsVars, sinkVars, call, scopes, now, m_pInstance>>

(***************************************************************************)
(* SpecRace: the threads check filters and set them up, in any             *)
(* interleaving of their steps.                                             *)
(***************************************************************************)
NextRace ==
  \/ \E t \in Threads, ch \in ConcChannels, lvl \in ConcLevels : CallIsEnabled(t, ch, lvl)
  \/ \E t \in Threads : FilterFind(t)
  \/ \E t \in Threads : FilterRet(t)
  \/ \E t \in Threads, sd \in ConcSetups : CallSetupFilters(t, sd[1], sd[2])
  \/ \E t \in Threads : Lock(t)
  \/ \E t \in Threads : SetupAssignFilters(t)
  \/ \E t \in Threads : SetupAssignDefault(t)
  \/ \E t \in Threads : Return(t)

SpecRace == Init /\ [][NextRace]_vars

(***************************************************************************)
(* ALOG (logger.hpp:366-372): filter, then log when it returned true.      *)
(* log (logger.cpp:446-481) takes no registry lock.  It reads m_formatter, *)
(* m_doMetadata and m_metadata and builds the entry (the constructor reads *)
(* m_serviceName and m_indents), has the formatter make the lines, and for *)
(* every line walks m_sinks: begin() and end() are read when the walk      *)
(* starts, then each element is locked, written and unlocked in turn.      *)
(* When m_sinks was changed during a walk, the element read is the one the *)
(* walk started with or the one the vector holds at that index now.        *)
(***************************************************************************)
CallALOG(t, ch, lvl, msg) ==
  /\ pc[t] = "idle"
  /\ \A st \in Streams : Len(streams[st]) < MaxLines
  /\ pc' = [pc EXCEPT ![t] = "filter"]
  /\ frame' = [frame EXCEPT ![t] = [IdleFrame EXCEPT !.op = "ALOG", !.a_channel = ch,
                                                      !.a_level = lvl, !.a_msg = msg]]
  /\ UNCHANGED <<cfgVars, flagVars, m_mutex, m_formatter, tlsVars, sinkVars, call, scopes, now, m_pInstance>>

\* The threads other than t that hold m_mutex and are about to insert a node
\* into m_indents, to erase one, or to clear the map; the same for m_metadata.
RestructuresIndents(x) ==
  /\ pc[x] = "body"
  /\ \/ frame[x].op = "addIndent" /\ x \notin DOMAIN m_indents
     \/ frame[x].op = "removeIndent" /\ x \in DOMAIN m_indents /\ m_indents[x] <= 1
     \/ frame[x].op = "reset"

RestructuresMetadata(x) ==
  /\ pc[x] = "body"
  /\ \/ frame[x].op = "addMetadata" /\ x \notin DOMAIN m_metadata
     \/ frame[x].op = "removeMetadata" /\ x \in DOMAIN m_metadata
          /\ DOMAIN m_metadata[x] = {frame[x].a_key}
     \/ frame[x].op = "clearMetadata" /\ x \in DOMAIN m_metadata

\* What m_indents.find(tid) and m_metadata.find(tid) of thread t can see.  They
\* run without the lock: while another thread restructures the std::map the
\* search is a data race, and it ends at t's node or misses it.
IndentsSeen(t) ==
  {m_indents} \cup
  (IF \E x \in Threads \ {t} : RestructuresIndents(x)
   THEN { [y \in (DOMAIN m_indents) \ {t} |-> m_indents[y]] } ELSE {})

MetadataSeen(t) ==
  {m_metadata} \cup
  (IF \E x \in Threads \ {t} : RestructuresMetadata(x)
   THEN { [y \in (DOMAIN m_metadata) \ {t} |-> m_metadata[y]] } ELSE {})

LogEntry(t) ==
  /\ pc[t] = "log"
  /\ IF m_formatter = NullFormatter
     THEN /\ pc' = [pc EXCEPT ![t] = "return"]
          /\ frame' = [frame EXCEPT ![t].sinksAtCall = m_sinks]
     ELSE /\ pc' = [pc EXCEPT ![t] = "log_format"]
          /\ \E indents \in IndentsSeen(t), metadata \in MetadataSeen(t) :
               frame' = [frame EXCEPT
                 ![t].sinksAtCall = m_sinks,
                 ![t].entry = CLogEntry(frame[t].a_channel, frame[t].a_level,
                                        frame[t].a_msg,
                                        logMapData(EmptyMap, m_doMetadata, metadata, t),
                                        m_serviceName, getIndent(indents, t), t)]
  /\ UNCHANGED <<cfgVars, flagVars, m_mutex, m_formatter, tlsVars, sinkVars, call, scopes, now, m_pInstance>>

\* The position after the walk for line frame[t].i is over.
AfterWalk(t) ==
  IF frame[t].i < Len(frame[t].lines) THEN "log_sinks" ELSE "return"

\* Variant: the lines of the entry are walked last to first.
LogFormat_reversed(t) ==
  /\ pc[t] = "log_format"
  /\ LET lines == formatEntry(m_formatter, frame[t].entry, m_doThreadLog)
     IN  /\ frame' = [frame EXCEPT
                        ![t].lines = [i \in 1..Len(lines) |-> lines[Len(lines) + 1 - i]],
                        ![t].i = 1]
         /\ pc' = [pc EXCEPT ![t] = IF lines = <<>> THEN "return" ELSE "log_sinks"]
  /\ UNCHANGED <<cfgVars, flagVars, m_mutex, m_formatter, tlsVars, sinkVars, call, scopes, now, m_pInstance>>

LogFormat(t) ==
  /\ pc[t] = "log_format"
  /\ LET lines == formatEntry(m_formatter, frame[t].entry, m_doThreadLog)
     IN  /\ frame' = [frame EXCEPT ![t].lines = lines, ![t].i = 1]
         /\ pc' = [pc EXCEPT ![t] = IF lines = <<>> THEN "return" ELSE "log_sinks"]
  /\ UNCHANGED <<cfgVars, flagVars, m_mutex, m_formatter, tlsVars, sinkVars, call, scopes, now, m_pInstance>>

LogSinks(t) ==
  /\ pc[t] = "log_sinks"
  /\ IF m_sinks = <<>>
     THEN /\ pc' = [pc EXCEPT ![t] = AfterWalk(t)]
          /\ frame' = [frame EXCEPT ![t].sinks = <<>>, ![t].k = 0,
                                    ![t].i = IF AfterWalk(t) = "return" THEN @ ELSE @ + 1]
     ELSE /\ pc' = [pc EXCEPT ![t] = "log_lock"]
          /\ frame' = [frame EXCEPT ![t].sinks = m_sinks, ![t].k = 1]
  /\ UNCHANGED <<cfgVars, flagVars, m_mutex, m_formatter, tlsVars, sinkVars, call, scopes, now, m_pInstance>>

SinkElements(t) ==
  { frame[t].sinks[frame[t].k] } \cup
  (IF frame[t].k <= Len(m_sinks) THEN { m_sinks[frame[t].k] } ELSE {})

\* TLock l_lock(*sink.m): waits until no thread holds the element's mutex.
LogLock(t) ==
  /\ pc[t] = "log_lock"
  /\ \E e \in SinkElements(t) :
       /\ sinkMutex[e.m] = NoThread
       /\ sinkMutex' = [sinkMutex EXCEPT ![e.m] = t]
       /\ writing' = [writing EXCEPT ![e.sink] = @ \cup {t}]
       /\ frame' = [frame EXCEPT ![t].m = e.m, ![t].sink = e.sink]
  /\ pc' = [pc EXCEPT ![t] = "log_write"]
  /\ UNCHANGED <<cfgVars, flagVars, m_mutex, m_formatter, tlsVars, m_sinks, streams, call, scopes, now, m_pInstance>>

\* sink.sink.get() << line << std::flush; the end of the scope unlocks.
LogWrite(t) ==
  /\ pc[t] = "log_write"
  /\ streams' = [streams EXCEPT ![frame[t].sink] = Append(@, frame[t].lines[frame[t].i])]
  /\ writing' = [writing EXCEPT ![frame[t].sink] = @ \ {t}]
  /\ sinkMutex' = [sinkMutex EXCEPT ![frame[t].m] = NoThread]
  /\ LET last == frame[t].k >= Len(frame[t].sinks)
         next == IF last THEN AfterWalk(t) ELSE "log_lock"
     IN  /\ pc' = [pc EXCEPT ![t] = next]
         /\ frame' = [frame EXCEPT
              ![t].written = @ \cup { <<frame[t].sink, frame[t].i>> },
              ![t].m = 0, ![t].sink = "none",
              ![t].k = IF last THEN 0 ELSE @ + 1,
              ![t].sinks = IF last THEN <<>> ELSE @,
              ![t].i = IF last /\ next = "log_sinks" THEN @ + 1 ELSE @]
  /\ UNCHANGED <<cfgVars, flagVars, m_mutex, m_formatter, tlsVars, m_sinks, call, scopes, now, m_pInstance>>

(***************************************************************************)
(* addSink (logger.cpp:392-396), reset (logger.cpp:609-619), addIndent     *)
(* (logger.cpp:491-504) and removeIndent (logger.cpp:506-519): the lock,   *)
(* then the body, whose end unlocks.                                        *)
(***************************************************************************)
CallAddSink(t, st) ==
  /\ pc[t] = "idle"
  /\ Len(m_sinks) + Cardinality({ x \in Threads : frame[x].op = "addSink" }) < MaxSinks
  /\ pc' = [pc EXCEPT ![t] = "lock"]
  /\ frame' = [frame EXCEPT ![t] = [IdleFrame EXCEPT !.op = "addSink", !.a_sink = st]]
  /\ UNCHANGED <<cfgVars, flagVars, m_mutex, m_formatter, tlsVars, sinkVars, call, scopes, now, m_pInstance>>

AddSinkBody(t) ==
  /\ pc[t] = "body" /\ frame[t].op = "addSink"
  /\ m_sinks' = Append(m_sinks, CSink(frame[t].a_sink))
  /\ m_mutex' = NoThread
  /\ pc' = [pc EXCEPT ![t] = "return"]
  /\ UNCHANGED <<cfgVars, flagVars, m_formatter, tlsVars, sinkMutex, writing, streams,
                 frame, call, scopes, now, m_pInstance>>

CallReset(t) ==
  /\ pc[t] = "idle"
  /\ pc' = [pc EXCEPT ![t] = "lock"]
  /\ frame' = [frame EXCEPT ![t] = [IdleFrame EXCEPT !.op = "reset"]]
  /\ UNCHANGED <<cfgVars, flagVars, m_mutex, m_formatter, tlsVars, sinkVars, call, scopes, now, m_pInstance>>

ResetBody(t) ==
  /\ pc[t] = "body" /\ frame[t].op = "reset"
  /\ m_sinks' = <<>>
  /\ m_filters' = NoFilters
  /\ m_defaultLevel' = off
  /\ m_doThreadLog' = FALSE
  /\ m_serviceName' = <<>>
  /\ m_indents' = [x \in {} |-> 0]
  /\ m_formatter' = StdFormatter
  /\ m_mutex' = NoThread
  /\ pc' = [pc EXCEPT ![t] = "return"]
  /\ frame' = ObserveConfig(Config(NoFilters, off))
  /\ UNCHANGED <<m_doMetadata, m_metadata, sinkMutex, writing, streams, call, scopes, now, m_pInstance>>

CallAddIndent(t) ==
  /\ pc[t] = "idle"
  /\ getIndent(m_indents, t) < MaxIndent
  /\ pc' = [pc EXCEPT ![t] = "lock"]
  /\ frame' = [frame EXCEPT ![t] = [IdleFrame EXCEPT !.op = "addIndent"]]
  /\ UNCHANGED <<cfgVars, flagVars, m_mutex, m_formatter, tlsVars, sinkVars, call, scopes, now, m_pInstance>>

\* Variant: the body goes for the registry lock again while it holds it.
AddIndentBody_relock(t) ==
  /\ pc[t] = "body" /\ frame[t].op = "addIndent"
  /\ pc' = [pc EXCEPT ![t] = "lock"]
  /\ UNCHANGED <<cfgVars, flagVars, m_mutex, m_formatter, tlsVars, sinkVars, frame, call, scopes, now, m_pInstance>>

AddIndentBody(t) ==
  /\ pc[t] = "body" /\ frame[t].op = "addIndent"
  /\ m_indents' = MapSet(m_indents, t, getIndent(m_indents, t) + 1)
  /\ m_mutex' = NoThread
  /\ pc' = [pc EXCEPT ![t] = "return"]
  /\ UNCHANGED <<cfgVars, flagVars, m_formatter, m_metadata, sinkVars, frame, call, scopes, now, m_pInstance>>

CallRemoveIndent(t) ==
  /\ pc[t] = "idle"
  /\ pc' = [pc EXCEPT ![t] = "lock"]
  /\ frame' = [frame EXCEPT ![t] = [IdleFrame EXCEPT !.op = "removeIndent"]]
  /\ UNCHANGED <<cfgVars, flagVars, m_mutex, m_formatter, tlsVars, sinkVars, call, scopes, now, m_pInstance>>

RemoveIndentBody(t) ==
  /\ pc[t] = "body" /\ frame[t].op = "removeIndent"
  /\ m_indents' = IF t \in DOMAIN m_indents
                  THEN (IF m_indents[t] > 1
                        THEN [m_indents EXCEPT ![t] = @ - 1]
                        ELSE [x \in DOMAIN m_indents \ {t} |-> m_indents[x]])
                  ELSE m_indents
  /\ m_mutex' = NoThread
  /\ pc' = [pc EXCEPT ![t] = "return"]
  /\ UNCHANGED <<cfgVars, flagVars, m_formatter, m_metadata, sinkVars, frame, call, scopes, now, m_pInstance>>

(***************************************************************************)
(* SpecLocks: the operations that take a mutex.  The threads log; the main *)
(* thread also sets up the filters and adds sinks (all on one stream: the  *)
(* mutexes are per sink), the other threads also move their indentation    *)
(* (as scope guards do), in any interleaving of their steps.               *)
(***************************************************************************)
LockSetups == { <<<<>>, LevelToHumanString(info)>>, <<<<>>, <<"x">>>> }
LockStreams == { "s1" }

NextLocks ==
  \/ \E t \in Threads, ch \in ConcChannels, msg \in ConcMessages :
       CallALOG(t, ch, info, msg)
  \/ \E t \in Threads : FilterFind(t)
  \/ \E t \in Threads : FilterRet(t)
  \/ \E t \in Threads : LogEntry(t)
  \/ \E t \in Threads : LogFormat(t)
  \/ \E t \in Threads : LogSinks(t)
  \/ \E t \in Threads : LogLock(t)
  \/ \E t \in Threads : LogWrite(t)
  \/ \E sd \in LockSetups : CallSetupFilters(MainThread, sd[1], sd[2])
  \/ \E t \in Threads : Lock(t)
  \/ \E t \in Threads : SetupAssignFilters(t)
  \/ \E t \in Threads : SetupAssignDefault(t)
  \/ \E st \in LockStreams : CallAddSink(MainThread, st)
  \/ \E t \in Threads : AddSinkBody(t)
  \/ \E t \in Threads \ {MainThread} : CallAddIndent(t)
  \/ \E t \in Threads : AddIndentBody(t)
  \/ \E t \in Threads \ {MainThread} : CallRemoveIndent(t)
  \/ \E t \in Threads : RemoveIndentBody(t)
  \/ \E t \in Threads : Return(t)

SpecLocks == Init /\ [][NextLocks]_vars

(***************************************************************************)
(* SpecLocksFair: SpecLocks under fair scheduling.  A thread that can take *)
(* a step of the call it is in eventually takes it, and a thread that      *)
(* waits for a mutex which is free again and again eventually gets it.     *)
(* Nothing obliges an idle thread to make another call.                    *)
(***************************************************************************)
Step(t) ==
  \/ FilterFind(t) \/ FilterRet(t) \/ LogEntry(t) \/ LogFormat(t) \/ LogSinks(t)
  \/ LogWrite(t) \/ SetupAssignFilters(t) \/ SetupAssignDefault(t)
  \/ AddSinkBody(t) \/ AddIndentBody(t) \/ RemoveIndentBody(t) \/ Return(t)

SpecLocksFair ==
  /\ SpecLocks
  /\ \A t \in Threads : WF_vars(Step(t)) /\ SF_vars(Lock(t)) /\ SF_vars(LogLock(t))

(***************************************************************************)
(* SpecSinks: the registry as setupFilters("", "info") leaves it; the      *)
(* threads log, and the main thread also adds sinks and resets, in any     *)
(* interleaving of their steps.                                             *)
(***************************************************************************)
InitLogging ==
  /\ LET r == setupFilters(NoFilters, off, <<>>, LevelToHumanString(info))
     IN  RegistryWith(r.filters, r.defaultLevel)
  /\ call = NoCall

NextSinks ==
  \/ \E t \in Threads, ch \in ConcChannels, lvl \in ConcLevels, msg \in ConcMessages :
       CallALOG(t, ch, lvl, msg)
  \/ \E t \in Threads : FilterFind(t)
  \/ \E t \in Threads : FilterRet(t)
  \/ \E t \in Threads : LogEntry(t)
  \/ \E t \in Threads : LogFormat(t)
  \/ \E t \in Threads : LogSinks(t)
  \/ \E t \in Threads : LogLock(t)
  \/ \E t \in Threads : LogWrite(t)
  \/ \E t \in Threads : Lock(t)
  \/ \E st \in Streams : CallAddSink(MainThread, st)
  \/ \E t \in Threads : AddSinkBody(t)
  \/ CallReset(MainThread)
  \/ \E t \in Threads : ResetBody(t)
  \/ \E t \in Threads : Return(t)

SpecSinks == InitLogging /\ [][NextSinks]_vars

(***************************************************************************)
(* SpecWalk: the registry as setupFilters("", "info") leaves it; the       *)
(* threads log while the main thread adds sinks.                           *)
(***************************************************************************)
WalkMessages == { <<"m">>, <<"m", "\n", "n">> }

NextWalk ==
  \/ \E t \in Threads, ch \in ConcChannels, msg \in WalkMessages :
       CallALOG(t, ch, info, msg)
  \/ \E t \in Threads : FilterFind(t)
  \/ \E t \in Threads : FilterRet(t)
  \/ \E t \in Threads : LogEntry(t)
  \/ \E t \in Threads : LogFormat(t)
  \/ \E t \in Threads : LogSinks(t)
  \/ \E t \in Threads : LogLock(t)
  \/ \E t \in Threads : LogWrite(t)
  \/ \E t \in Threads : Lock(t)
  \/ \E st \in Streams : CallAddSink(MainThread, st)
  \/ \E t \in Threads : AddSinkBody(t)
  \/ \E t \in Threads : Return(t)

SpecWalk == InitLogging /\ [][NextWalk]_vars

(***************************************************************************)
(* addIndent (logger.cpp:491-504) and removeIndent (logger.cpp:506-519) as *)
(* whole calls of thread tid on the indent map: removeIndent erases the    *)
(* entry that reaches 0 and does nothing for a thread with no entry.       *)
(***************************************************************************)
MapErase(m, k) == [x \in (DOMAIN m) \ {k} |-> m[x]]

addIndent(indents, tid) == MapSet(indents, tid, getIndent(indents, tid) + 1)

\* Variant: the entry is erased whatever its count.
removeIndent_erase(indents, tid) == MapErase(indents, tid)

\* Variant: the entry that reaches 0 stays in the map.
removeIndent_zero(indents, tid) ==
  IF tid \in DOMAIN indents
  THEN [indents EXCEPT ![tid] = IF @ > 0 THEN @ - 1 ELSE @]
  ELSE indents

removeIndent(indents, tid) ==
  IF tid \in DOMAIN indents
  THEN (IF indents[tid] > 1 THEN [indents EXCEPT ![tid] = @ - 1]
        ELSE MapErase(indents, tid))
  ELSE indents

(***************************************************************************)
(* CLogScopedIndent (logger.hpp:303-312, logger.cpp:717-737).  A guard on  *)
(* the stack of a thread holds m_enabled.  The fields conditional,         *)
(* a_channelName, a_level and depthAtEntry are not members of the object:  *)
(* they record which constructor made it, with which arguments, and the    *)
(* indent of the thread just before.                                        *)
(***************************************************************************)
MaxScopes == 2        \* scope guards alive on one thread's stack
NoGuard == scopes[MainThread] = <<>>

CLogScopedIndent(enabled, conditional, a_channelName, a_level, depth) ==
  [kind |-> "CLogScopedIndent", m_enabled |-> enabled, m_keys |-> <<>>,
   conditional |-> conditional, a_channelName |-> a_channelName, a_level |-> a_level,
   depthAtEntry |-> depth, metadataAtEntry |-> <<>>]

\* Variant: the destructor asks the filter again.
CLogScopedIndent_dtor_refilter(g, indents, tid) ==
  IF filter(m_filters, m_defaultLevel, g.a_channelName, g.a_level)
  THEN removeIndent(indents, tid) ELSE indents

\* ~CLogScopedIndent
CLogScopedIndent_dtor(g, indents, tid) ==
  IF g.m_enabled THEN removeIndent(indents, tid) ELSE indents

\* addIndent called directly, outside of any scope guard.
AddIndentCall ==
  /\ scopes[MainThread] = <<>>
  /\ getIndent(m_indents, MainThread) < MaxIndent
  /\ m_indents' = addIndent(m_indents, MainThread)
  /\ call' = [NoCall EXCEPT !.op = "addIndent"]
  /\ UNCHANGED <<cfgVars, flagVars, m_mutex, m_formatter, m_metadata, sinkVars,
                 threadVars, scopes, now, m_pInstance>>

\* removeIndent called directly, matched by an addIndent or not; call.val is
\* the depth of the thread just before.
RemoveIndentCall ==
  /\ m_indents' = removeIndent(m_indents, MainThread)
  /\ call' = [NoCall EXCEPT !.op = "removeIndent",
                            !.val = getIndent(m_indents, MainThread)]
  /\ UNCHANGED <<cfgVars, flagVars, m_mutex, m_formatter, m_metadata, sinkVars,
                 threadVars, scopes, now, m_pInstance>>

\* ALOG_SCOPED_INDENT(): CLogScopedIndent()
ScopedIndentEnter ==
  /\ Len(scopes[MainThread]) < MaxScopes
  /\ m_indents' = addIndent(m_indents, MainThread)
  /\ scopes' = [scopes EXCEPT ![MainThread] =
                  Append(@, CLogScopedIndent(TRUE, FALSE, <<>>, off,
                                             getIndent(m_indents, MainThread)))]
  /\ call' = [NoCall EXCEPT !.op = "scopeEnter", !.kind = "CLogScopedIndent"]
  /\ UNCHANGED <<cfgVars, flagVars, m_mutex, m_formatter, m_metadata, sinkVars,
                 threadVars, now, m_pInstance>>

\* ALOG_SCOPED_INDENT_IF(channel, level): the constructor calls filter, which
\* throws for off; then no guard exists and no destructor runs.
ScopedIndentIfEnter(ch, lvl) ==
  /\ Len(scopes[MainThread]) < MaxScopes
  /\ IF filterThrows(lvl)
     THEN /\ call' = [NoCall EXCEPT !.op = "scopeEnter", !.kind = "CLogScopedIndent",
                                    !.conditional = TRUE, !.a_channel = ch,
                                    !.a_level = lvl, !.thrown = TRUE]
          /\ UNCHANGED <<m_indents, scopes, now, m_pInstance>>
     ELSE LET enabled == filter(m_filters, m_defaultLevel, ch, lvl)
          IN  /\ m_indents' = IF enabled THEN addIndent(m_indents, MainThread)
                                         ELSE m_indents
              /\ scopes' = [scopes EXCEPT ![MainThread] =
                              Append(@, CLogScopedIndent(enabled, TRUE, ch, lvl,
                                                         getIndent(m_indents, MainThread)))]
              /\ call' = [NoCall EXCEPT !.op = "scopeEnter", !.kind = "CLogScopedIndent",
                                    !.conditional = TRUE, !.a_channel = ch,
                                        !.a_level = lvl, !.ret = enabled]
  /\ UNCHANGED <<cfgVars, flagVars, m_mutex, m_formatter, m_metadata, sinkVars,
                 threadVars, now, m_pInstance>>

\* The innermost guard goes out of scope.
ScopedIndentExit ==
  /\ scopes[MainThread] # <<>>
  /\ LET sc == scopes[MainThread]
         g == sc[Len(sc)]
     IN  /\ g.kind = "CLogScopedIndent"
         /\ m_indents' = CLogScopedIndent_dtor(g, m_indents, MainThread)
         /\ scopes' = [scopes EXCEPT ![MainThread] = SubSeq(sc, 1, Len(sc) - 1)]
         /\ call' = [NoCall EXCEPT !.op = "scopeExit", !.guard = g]
  /\ UNCHANGED <<cfgVars, flagVars, m_mutex, m_formatter, m_metadata, sinkVars,
                 threadVars, now, m_pInstance>>

(***************************************************************************)
(* SpecIndent: one thread, with the filters set up, opens and closes       *)
(* indent scopes, plain and conditional, sets the filters up again and     *)
(* logs in between.  No sink is registered: the lines of the last log call *)
(* are in `call`.                                                           *)
(***************************************************************************)
IndentSetups == { <<Str_A_info, LevelToHumanString(off)>>,
                  <<<<>>, LevelToHumanString(off)>>,
                  <<<<>>, LevelToHumanString(debug)>> }
IndentChannels == { <<"A">>, <<"B">> }
IndentLevels == { off, info, debug }
IndentMessages == { <<"m">>, <<"m", "\n", "n">> }

NextIndent ==
  \/ \E sd \in IndentSetups : SetupFiltersCall(sd[1], sd[2])
  \/ AddIndentCall
  \/ ScopedIndentEnter
  \/ \E ch \in IndentChannels, lvl \in IndentLevels : ScopedIndentIfEnter(ch, lvl)
  \/ ScopedIndentExit
  \/ \E f \in {StdFormatter, JSONFormatter} : SetFormatterCall(f)
  \/ \E ch \in IndentChannels, msg \in IndentMessages :
       ALOGCall(ch, info, msg, EmptyMap)

SpecIndent == Init /\ [][NextIndent]_vars

(***************************************************************************)
(* SpecDepth: one thread calls addIndent and removeIndent itself, the      *)
(* latter at any time (also with no indent, and inside scopes), opens and  *)
(* closes indent scopes, and resets the registry.                          *)
(***************************************************************************)
NextDepth ==
  \/ \E sd \in IndentSetups : SetupFiltersCall(sd[1], sd[2])
  \/ AddIndentCall
  \/ RemoveIndentCall
  \/ ScopedIndentEnter
  \/ \E ch \in IndentChannels, lvl \in IndentLevels : ScopedIndentIfEnter(ch, lvl)
  \/ ScopedIndentExit
  \/ ResetCall

SpecDepth == Init /\ [][NextDepth]_vars

(***************************************************************************)
(* addMetadata (logger.cpp:535-554), removeMetadata (logger.cpp:556-576),  *)
(* clearMetadata (logger.cpp:578-590) and getMetadata (logger.cpp:592-607) *)
(* as whole calls of thread tid: each of the three mutators does nothing   *)
(* when m_doMetadata is false; removeMetadata erases the thread's entry    *)
(* when its last key goes.                                                  *)
(***************************************************************************)
getMetadata(metadata, tid) == IF tid \in DOMAIN metadata THEN metadata[tid] ELSE EmptyMap

addMetadata(doMetadata, metadata, tid, a_key, a_value) ==
  IF doMetadata
  THEN MapSet(metadata, tid, MapSet(getMetadata(metadata, tid), a_key, a_value))
  ELSE metadata

\* Variant: the thread's entry stays when its last key goes.
removeMetadata_keep(doMetadata, metadata, tid, a_key) ==
  IF doMetadata /\ tid \in DOMAIN metadata /\ a_key \in DOMAIN metadata[tid]
  THEN [metadata EXCEPT ![tid] = MapErase(@, a_key)]
  ELSE metadata

removeMetadata(doMetadata, metadata, tid, a_key) ==
  IF doMetadata /\ tid \in DOMAIN metadata /\ a_key \in DOMAIN metadata[tid]
  THEN (IF DOMAIN metadata[tid] = {a_key}
        THEN MapErase(metadata, tid)
        ELSE [metadata EXCEPT ![tid] = MapErase(@, a_key)])
  ELSE metadata

\* Variant: the flag is not looked at.
clearMetadata_unchecked(doMetadata, metadata, tid) == MapErase(metadata, tid)

clearMetadata(doMetadata, metadata, tid) ==
  IF doMetadata THEN MapErase(metadata, tid) ELSE metadata

(***************************************************************************)
(* CLogScopedMetadata (logger.hpp:315-322, logger.cpp:741-763): m_keys are *)
(* the keys given to the constructor, which calls addMetadata for each;    *)
(* the destructor calls removeMetadata for each of m_keys.  The field      *)
(* metadataAtEntry is not a member: it records the metadata of the thread  *)
(* just before the constructor ran, and m_enabled the flag at that time.   *)
(***************************************************************************)
MetadataKeys == <<"k1", "k2">>      \* in the order json objects iterate
MetadataValues == {1, 2}

\* getMapKeys (logger.cpp:121-129)
RECURSIVE getMapKeys(_, _)
getMapKeys(a_mdMap, i) ==
  IF i > Len(MetadataKeys) THEN <<>>
  ELSE (IF MetadataKeys[i] \in DOMAIN a_mdMap THEN <<MetadataKeys[i]>> ELSE <<>>)
         \o getMapKeys(a_mdMap, i + 1)

CLogScopedMetadata(keys, doMetadata, metadata) ==
  [kind |-> "CLogScopedMetadata", m_enabled |-> doMetadata, m_keys |-> keys,
   conditional |-> FALSE, a_channelName |-> <<>>, a_level |-> off,
   depthAtEntry |-> 0, metadataAtEntry |-> metadata]

RECURSIVE addAll(_, _, _, _, _)
addAll(keys, a_mdMap, doMetadata, metadata, tid) ==
  IF keys = <<>> THEN metadata
  ELSE addAll(Tail(keys), a_mdMap, doMetadata,
              addMetadata(doMetadata, metadata, tid, Head(keys), a_mdMap[Head(keys)]), tid)

RECURSIVE CLogScopedMetadata_dtor(_, _, _, _)
CLogScopedMetadata_dtor(keys, doMetadata, metadata, tid) ==
  IF keys = <<>> THEN metadata
  ELSE CLogScopedMetadata_dtor(Tail(keys), doMetadata,
                               removeMetadata(doMetadata, metadata, tid, Head(keys)), tid)

EnableMetadataCall ==
  /\ m_doMetadata' = TRUE
  /\ call' = [NoCall EXCEPT !.op = "enableMetadata"]
  /\ UNCHANGED <<cfgVars, m_doThreadLog, m_serviceName, m_mutex, m_formatter, tlsVars,
                 sinkVars, threadVars, scopes, now, m_pInstance>>

DisableMetadataCall ==
  /\ m_doMetadata' = FALSE
  /\ call' = [NoCall EXCEPT !.op = "disableMetadata"]
  /\ UNCHANGED <<cfgVars, m_doThreadLog, m_serviceName, m_mutex, m_formatter, tlsVars,
                 sinkVars, threadVars, scopes, now, m_pInstance>>

AddMetadataCall(k, v) ==
  /\ m_metadata' = addMetadata(m_doMetadata, m_metadata, MainThread, k, v)
  /\ call' = [NoCall EXCEPT !.op = "addMetadata", !.a_key = k,
                            !.preMetadata = m_metadata, !.preDoMetadata = m_doMetadata]
  /\ UNCHANGED <<cfgVars, flagVars, m_mutex, m_formatter, m_indents, sinkVars,
                 threadVars, scopes, now, m_pInstance>>

RemoveMetadataCall(k) ==
  /\ m_metadata' = removeMetadata(m_doMetadata, m_metadata, MainThread, k)
  /\ call' = [NoCall EXCEPT !.op = "removeMetadata", !.a_key = k,
                            !.preMetadata = m_metadata, !.preDoMetadata = m_doMetadata]
  /\ UNCHANGED <<cfgVars, flagVars, m_mutex, m_formatter, m_indents, sinkVars,
                 threadVars, scopes, now, m_pInstance>>

ClearMetadataCall ==
  /\ m_metadata' = clearMetadata(m_doMetadata, m_metadata, MainThread)
  /\ call' = [NoCall EXCEPT !.op = "clearMetadata",
                            !.preMetadata = m_metadata, !.preDoMetadata = m_doMetadata]
  /\ UNCHANGED <<cfgVars, flagVars, m_mutex, m_formatter, m_indents, sinkVars,
                 threadVars, scopes, now, m_pInstance>>

\* ALOG_SCOPED_METADATA(key, value)
ScopedMetadataEnterKV(k, v) ==
  /\ Len(scopes[MainThread]) < MaxScopes
  /\ m_metadata' = addMetadata(m_doMetadata, m_metadata, MainThread, k, v)
  /\ scopes' = [scopes EXCEPT ![MainThread] =
                  Append(@, CLogScopedMetadata(<<k>>, m_doMetadata,
                                               getMetadata(m_metadata, MainThread)))]
  /\ call' = [NoCall EXCEPT !.op = "scopeEnter", !.kind = "CLogScopedMetadata"]
  /\ UNCHANGED <<cfgVars, flagVars, m_mutex, m_formatter, m_indents, sinkVars,
                 threadVars, now, m_pInstance>>

\* ALOG_SCOPED_METADATA(map)
ScopedMetadataEnterMap(a_mdMap) ==
  /\ Len(scopes[MainThread]) < MaxScopes
  /\ m_metadata' = addAll(getMapKeys(a_mdMap, 1), a_mdMap, m_doMetadata, m_metadata,
                          MainThread)
  /\ scopes' = [scopes EXCEPT ![MainThread] =
                  Append(@, CLogScopedMetadata(getMapKeys(a_mdMap, 1), m_doMetadata,
                                               getMetadata(m_metadata, MainThread)))]
  /\ call' = [NoCall EXCEPT !.op = "scopeEnter", !.kind = "CLogScopedMetadata"]
  /\ UNCHANGED <<cfgVars, flagVars, m_mutex, m_formatter, m_indents, sinkVars,
                 threadVars, now, m_pInstance>>

\* The innermost guard goes out of scope.
ScopedMetadataExit ==
  /\ scopes[MainThread] # <<>>
  /\ LET sc == scopes[MainThread]
         g == sc[Len(sc)]
     IN  /\ g.kind = "CLogScopedMetadata"
         /\ m_metadata' = CLogScopedMetadata_dtor(g.m_keys, m_doMetadata, m_metadata,
                                                  MainThread)
         /\ scopes' = [scopes EXCEPT ![MainThread] = SubSeq(sc, 1, Len(sc) - 1)]
         /\ call' = [NoCall EXCEPT !.op = "scopeExit", !.guard = g,
                                   !.preMetadata = m_metadata,
                                   !.preDoMetadata = m_doMetadata]
  /\ UNCHANGED <<cfgVars, flagVars, m_mutex, m_formatter, m_indents, sinkVars,
                 threadVars, now, m_pInstance>>

(***************************************************************************)
(* SpecNest: one thread enables metadata, opens and closes metadata scopes *)
(* and logs in between (no sink is registered: the lines of the last log   *)
(* call are in `call`).                                                     *)
(***************************************************************************)
MetadataMaps ==
  { m \in UNION { [D -> MetadataValues] : D \in SUBSET {"k1", "k2"} } : DOMAIN m # {} }
MetadataMapDatas ==
  { EmptyMap, MapSet(EmptyMap, "foo", 123),
    MapSet(EmptyMap, "metadata", MapSet(EmptyMap, "k1", 2)) }
MetadataMessages == { <<"m">>, <<>> }

InitMetadata ==
  /\ LET r == setupFilters(NoFilters, off, <<>>, LevelToHumanString(info))
     IN  RegistryWith(r.filters, r.defaultLevel)
  /\ call = NoCall

NextNest ==
  \/ EnableMetadataCall
  \/ \E k \in {"k1", "k2"}, v \in MetadataValues : ScopedMetadataEnterKV(k, v)
  \/ \E m \in MetadataMaps : ScopedMetadataEnterMap(m)
  \/ ScopedMetadataExit
  \/ \E f \in {StdFormatter, JSONFormatter} : SetFormatterCall(f)
  \/ \E msg \in MetadataMessages, map \in MetadataMapDatas :
       ALOGCall(<<"A">>, info, msg, map)

SpecNest == InitMetadata /\ [][NextNest]_vars

(***************************************************************************)
(* SpecGuards: as SpecNest, and the thread also disables metadata, at any  *)
(* point, also while scopes are open.                                       *)
(***************************************************************************)
NextGuards ==
  \/ EnableMetadataCall
  \/ DisableMetadataCall
  \/ \E k \in {"k1", "k2"}, v \in MetadataValues : ScopedMetadataEnterKV(k, v)
  \/ \E m \in MetadataMaps : ScopedMetadataEnterMap(m)
  \/ ScopedMetadataExit
  \/ ALOGCall(<<"A">>, info, <<"m">>, EmptyMap)

SpecGuards == InitMetadata /\ [][NextGuards]_vars

(***************************************************************************)
(* SpecMetadata: one thread enables and disables metadata, calls           *)
(* addMetadata, removeMetadata and clearMetadata itself, and logs.         *)
(***************************************************************************)
NextMetadata ==
  \/ EnableMetadataCall
  \/ DisableMetadataCall
  \/ \E k \in {"k1", "k2"}, v \in MetadataValues : AddMetadataCall(k, v)
  \/ \E k \in {"k1", "k2"} : RemoveMetadataCall(k)
  \/ ClearMetadataCall
  \/ \E f \in {StdFormatter, JSONFormatter} : SetFormatterCall(f)
  \/ \E msg \in MetadataMessages, map \in MetadataMapDatas :
       ALOGCall(<<"A">>, info, msg, map)

SpecMetadata == InitMetadata /\ [][NextMetadata]_vars

(***************************************************************************)
(* SpecEntries: one thread enables and disables metadata, calls            *)
(* addMetadata, removeMetadata and clearMetadata itself, also inside a     *)
(* metadata scope (one scope at a time, also one with an empty map), and   *)
(* resets the registry.                                                     *)
(***************************************************************************)
EntriesMaps == { EmptyMap, [k \in {"k1", "k2"} |-> 1] }

NextEntries ==
  \/ EnableMetadataCall
  \/ DisableMetadataCall
  \/ \E k \in {"k1", "k2"} : AddMetadataCall(k, 1)
  \/ \E k \in {"k1", "k2"} : RemoveMetadataCall(k)
  \/ ClearMetadataCall
  \/ NoGuard /\ ScopedMetadataEnterKV("k1", 1)
  \/ NoGuard /\ \E m \in EntriesMaps : ScopedMetadataEnterMap(m)
  \/ ScopedMetadataExit
  \/ ResetCall

SpecEntries == InitMetadata /\ [][NextEntries]_vars

(***************************************************************************)
(* SpecReset: one thread configures the registry in every respect          *)
(* (filters, sinks, formatter, thread-ID flag, metadata flag, service      *)
(* name, indentation, metadata) and resets it.                             *)
(***************************************************************************)
\* enableThreadID (logger.cpp:404-408)
EnableThreadIDCall ==
  /\ m_doThreadLog' = TRUE
  /\ call' = [NoCall EXCEPT !.op = "enableThreadID"]
  /\ UNCHANGED <<cfgVars, m_doMetadata, m_serviceName, m_mutex, m_formatter, tlsVars,
                 sinkVars, threadVars, scopes, now, m_pInstance>>

\* setServiceName (logger.cpp:428-432)
SetServiceNameCall(a_serviceName) ==
  /\ m_serviceName' = a_serviceName
  /\ call' = [NoCall EXCEPT !.op = "setServiceName"]
  /\ UNCHANGED <<cfgVars, m_doThreadLog, m_doMetadata, m_mutex, m_formatter, tlsVars,
                 sinkVars, threadVars, scopes, now, m_pInstance>>

ResetSetups == { <<Str_A_info, LevelToHumanString(debug)>>,
                 <<<<>>, LevelToHumanString(info)>> }

NextReset ==
  \/ \E sd \in ResetSetups : SetupFiltersCall(sd[1], sd[2])
  \/ \E st \in Streams : AddSinkCall(st)
  \/ SetFormatterCall(JSONFormatter)
  \/ EnableThreadIDCall
  \/ EnableMetadataCall
  \/ SetServiceNameCall(<<"s", "v", "c">>)
  \/ AddIndentCall
  \/ AddMetadataCall("k1", 1)
  \/ ResetCall

SpecReset == Init /\ [][NextReset]_vars

(***************************************************************************)
(* The per-thread state seen by threads.  getIndent (logger.cpp:521-533)   *)
(* and getMetadata (logger.cpp:592-607) search the maps without the lock.  *)
(* addMetadata, removeMetadata and clearMetadata (logger.cpp:535-590) read *)
(* m_doMetadata without the lock, then lock and change the map;            *)
(* enableMetadata (logger.cpp:416-420) locks and sets the flag.            *)
(***************************************************************************)
CallGetIndent(t) ==
  /\ pc[t] = "idle"
  /\ pc' = [pc EXCEPT ![t] = "get_indent"]
  /\ frame' = [frame EXCEPT ![t] = [IdleFrame EXCEPT !.op = "getIndent"]]
  /\ UNCHANGED <<cfgVars, flagVars, m_mutex, m_formatter, tlsVars, sinkVars, call, scopes, now, m_pInstance>>

GetIndent(t) ==
  /\ pc[t] = "get_indent"
  /\ \E indents \in IndentsSeen(t) :
       frame' = [frame EXCEPT ![t].depth = getIndent(indents, t)]
  /\ pc' = [pc EXCEPT ![t] = "return"]
  /\ UNCHANGED <<cfgVars, flagVars, m_mutex, m_formatter, tlsVars, sinkVars, call, scopes, now, m_pInstance>>

CallGetMetadata(t) ==
  /\ pc[t] = "idle"
  /\ pc' = [pc EXCEPT ![t] = "get_metadata"]
  /\ frame' = [frame EXCEPT ![t] = [IdleFrame EXCEPT !.op = "getMetadata"]]
  /\ UNCHANGED <<cfgVars, flagVars, m_mutex, m_formatter, tlsVars, sinkVars, call, scopes, now, m_pInstance>>

GetMetadata(t) ==
  /\ pc[t] = "get_metadata"
  /\ \E metadata \in MetadataSeen(t) :
       frame' = [frame EXCEPT ![t].metadata = getMetadata(metadata, t)]
  /\ pc' = [pc EXCEPT ![t] = "return"]
  /\ UNCHANGED <<cfgVars, flagVars, m_mutex, m_formatter, tlsVars, sinkVars, call, scopes, now, m_pInstance>>

CallEnableMetadata(t) ==
  /\ pc[t] = "idle"
  /\ ~m_doMetadata
  /\ pc' = [pc EXCEPT ![t] = "lock"]
  /\ frame' = [frame EXCEPT ![t] = [IdleFrame EXCEPT !.op = "enableMetadata"]]
  /\ UNCHANGED <<cfgVars, flagVars, m_mutex, m_formatter, tlsVars, sinkVars, call, scopes, now, m_pInstance>>

EnableMetadataBody(t) ==
  /\ pc[t] = "body" /\ frame[t].op = "enableMetadata"
  /\ m_doMetadata' = TRUE
  /\ m_mutex' = NoThread
  /\ pc' = [pc EXCEPT ![t] = "return"]
  /\ UNCHANGED <<cfgVars, m_doThreadLog, m_serviceName, m_formatter, tlsVars, sinkVars,
                 frame, call, scopes, now, m_pInstance>>

\* addMetadata(key, value), removeMetadata(key) or clearMetadata() is called.
CallMetadataOp(t, op, k, v) ==
  /\ pc[t] = "idle"
  /\ pc' = [pc EXCEPT ![t] = "md_flag"]
  /\ frame' = [frame EXCEPT ![t] = [IdleFrame EXCEPT !.op = op, !.a_key = k,
                                                      !.a_value = v]]
  /\ UNCHANGED <<cfgVars, flagVars, m_mutex, m_formatter, tlsVars, sinkVars, call, scopes, now, m_pInstance>>

\* if (m_doMetadata)
MetadataFlag(t) ==
  /\ pc[t] = "md_flag"
  /\ pc' = [pc EXCEPT ![t] = IF m_doMetadata THEN "lock" ELSE "return"]
  /\ UNCHANGED <<cfgVars, flagVars, m_mutex, m_formatter, tlsVars, sinkVars, frame,
                 call, scopes, now, m_pInstance>>

\* What follows TLock lock(m_mutex) in the three functions.
MetadataBody(t) ==
  /\ pc[t] = "body"
  /\ frame[t].op \in {"addMetadata", "removeMetadata", "clearMetadata"}
  /\ m_metadata' =
       IF frame[t].op = "addMetadata"
       THEN addMetadata(TRUE, m_metadata, t, frame[t].a_key, frame[t].a_value)
       ELSE IF frame[t].op = "removeMetadata"
            THEN removeMetadata(TRUE, m_metadata, t, frame[t].a_key)
            ELSE clearMetadata(TRUE, m_metadata, t)
  /\ m_mutex' = NoThread
  /\ pc' = [pc EXCEPT ![t] = "return"]
  /\ UNCHANGED <<cfgVars, flagVars, m_formatter, m_indents, sinkVars, frame, call, scopes, now, m_pInstance>>

(***************************************************************************)
(* SpecTls: the registry as setupFilters("", "info") leaves it, no sink.   *)
(* Every thread moves its indentation and its metadata, reads them back    *)
(* and logs; the main thread enables metadata.                              *)
(***************************************************************************)
TlsOps == { <<"addMetadata", "k1", 1>>, <<"removeMetadata", "k1", 0>>,
            <<"clearMetadata", "none", 0>> }

NextTls ==
  \/ \E t \in Threads : CallAddIndent(t)
  \/ \E t \in Threads : AddIndentBody(t)
  \/ \E t \in Threads : CallRemoveIndent(t)
  \/ \E t \in Threads : RemoveIndentBody(t)
  \/ \E t \in Threads : CallGetIndent(t)
  \/ \E t \in Threads : GetIndent(t)
  \/ \E t \in Threads : CallGetMetadata(t)
  \/ \E t \in Threads : GetMetadata(t)
  \/ CallEnableMetadata(MainThread)
  \/ \E t \in Threads : EnableMetadataBody(t)
  \/ \E t \in Threads, o \in TlsOps : CallMetadataOp(t, o[1], o[2], o[3])
  \/ \E t \in Threads : MetadataFlag(t)
  \/ \E t \in Threads : MetadataBody(t)
  \/ \E t \in Threads : Lock(t)
  \/ \E t \in Threads, ch \in ConcChannels, msg \in ConcMessages :
       CallALOG(t, ch, info, msg)
  \/ \E t \in Threads : FilterFind(t)
  \/ \E t \in Threads : FilterRet(t)
  \/ \E t \in Threads : LogEntry(t)
  \/ \E t \in Threads : LogFormat(t)
  \/ \E t \in Threads : LogSinks(t)
  \/ \E t \in Threads : Return(t)

SpecTls == InitLogging /\ [][NextTls]_vars

(***************************************************************************)
(* ALOG_LEVEL_IMPL (logger.hpp:366-372) as one call of the single-threaded *)
(* caller: filter, which throws for off, then log when it returned true;   *)
(* log returns at once when no formatter is set (logger.cpp:451-455).      *)
(* The result tells what happened and what the streams hold afterwards.    *)
(***************************************************************************)
\* Variant: a request at level off is not logged and nothing is thrown.
ALOG_LEVEL_IMPL_nothrow(channel, level, msg, map) ==
  LET enabled == level # off /\ filter(m_filters, m_defaultLevel, channel, level)
      built == enabled /\ m_formatter # NullFormatter
      lines == IF built THEN logLines(MainThread, channel, level, msg, map) ELSE <<>>
  IN  [thrown |-> FALSE, ret |-> enabled, entry |-> built, lines |-> lines,
       streams |-> IF built THEN writeLines(lines, m_sinks, streams) ELSE streams]

ALOG_LEVEL_IMPL(channel, level, msg, map) ==
  LET thrown == filterThrows(level)
      enabled == ~thrown /\ filter(m_filters, m_defaultLevel, channel, level)
      built == enabled /\ m_formatter # NullFormatter
      lines == IF built THEN logLines(MainThread, channel, level, msg, map) ELSE <<>>
  IN  [thrown |-> thrown, ret |-> enabled, entry |-> built, lines |-> lines,
       streams |-> IF built THEN writeLines(lines, m_sinks, streams) ELSE streams]

(***************************************************************************)
(* CLogScope (logger.hpp:264-279, logger.cpp:623-640).  The guard holds    *)
(* its channel, level, message and the shared pointer to the caller's map; *)
(* the object the pointer shares is kept with the guard, and the caller    *)
(* changes it through its own pointer.  The other fields are not members:  *)
(* they record what the constructor saw and did.                           *)
(***************************************************************************)
StartPrefix == <<"Start: ">>
EndPrefix == <<"End: ">>
\* A TScopeLogMapPtr is empty or holds the json object it shares.
NullMapPtr == <<>>
MapPtr(obj) == <<obj>>
s_emptyMapData == EmptyMap

\* m_mapDataPtr ? *m_mapDataPtr : s_emptyMapData
Deref(a_mapDataPtr) ==
  IF a_mapDataPtr = NullMapPtr THEN s_emptyMapData ELSE a_mapDataPtr[1]

CLogScope(a_channelName, a_level, a_msg, a_mapDataPtr, r) ==
  [kind |-> "CLogScope", m_channelName |-> a_channelName, m_level |-> a_level,
   m_msg |-> a_msg, m_mapDataPtr |-> a_mapDataPtr,
   enabledAtEntry |-> r.ret, linesAtEntry |-> r.lines,
   mapAtEntry |-> Deref(a_mapDataPtr), streamsAtEntry |-> streams, inner |-> {}]

\* Variant: the destructor logs the constructor's message again.
CLogScope_dtor_start(g) ==
  ALOG_LEVEL_IMPL(g.m_channelName, g.m_level, StartPrefix \o g.m_msg,
                  Deref(g.m_mapDataPtr))

\* Variant: the destructor logs the map as the constructor found it.
CLogScope_dtor_snapshot(g) ==
  ALOG_LEVEL_IMPL(g.m_channelName, g.m_level, EndPrefix \o g.m_msg, g.mapAtEntry)

\* Variant: the destructor logs only when the constructor did.
CLogScope_dtor_asEntered(g) ==
  IF g.enabledAtEntry
  THEN ALOG_LEVEL_IMPL(g.m_channelName, g.m_level, EndPrefix \o g.m_msg,
                       Deref(g.m_mapDataPtr))
  ELSE [thrown |-> FALSE, ret |-> FALSE, entry |-> FALSE, lines |-> <<>>,
        streams |-> streams]

\* ~CLogScope
CLogScope_dtor(g) ==
  ALOG_LEVEL_IMPL(g.m_channelName, g.m_level, EndPrefix \o g.m_msg,
                  Deref(g.m_mapDataPtr))

\* The scopes of thread t, each told that a scope with message a_msg opens inside it.
OpensInside(sc, a_msg) ==
  [i \in 1..Len(sc) |->
     IF "inner" \in DOMAIN sc[i] THEN [sc[i] EXCEPT !.inner = @ \cup {a_msg}]
     ELSE sc[i]]

\* ALOG_SCOPED_BLOCK(channel, level, msg [, mapPtr]): CLogScope's constructor.
\* When filter throws, no guard exists and no destructor runs.
ScopedBlockEnter(ch, lvl, msg, ptr) ==
  /\ Len(scopes[MainThread]) < MaxScopes
  /\ LET r == ALOG_LEVEL_IMPL(ch, lvl, StartPrefix \o msg, Deref(ptr))
     IN  /\ streams' = r.streams
         /\ scopes' = IF r.thrown THEN scopes
                      ELSE [scopes EXCEPT ![MainThread] =
                              Append(OpensInside(@, msg),
                                     CLogScope(ch, lvl, msg, ptr, r))]
         /\ call' = [NoCall EXCEPT !.op = "scopeEnter", !.a_channel = ch,
                                   !.a_level = lvl, !.thrown = r.thrown,
                                   !.ret = r.ret, !.entry = r.entry,
                                   !.lines = r.lines, !.a_mapData = Deref(ptr),
                                   !.kind = "CLogScope", !.a_msg = msg,
                                   !.preStreams = streams]
  /\ UNCHANGED <<cfgVars, flagVars, m_mutex, m_formatter, tlsVars, m_sinks,
                 sinkMutex, writing, threadVars, now, m_pInstance>>

\* The innermost guard, a CLogScope, goes out of scope.
ScopedBlockExit ==
  /\ scopes[MainThread] # <<>>
  /\ LET sc == scopes[MainThread]
         g == sc[Len(sc)]
     IN  /\ g.kind = "CLogScope"
         /\ LET r == CLogScope_dtor(g)
            IN  /\ streams' = r.streams
                /\ call' = [NoCall EXCEPT !.op = "scopeExit", !.guard = g,
                                          !.ret = r.ret, !.entry = r.entry,
                                          !.lines = r.lines,
                                          !.a_mapData = Deref(g.m_mapDataPtr),
                                          !.kind = "CLogScope",
                                          !.preStreams = streams]
         /\ scopes' = [scopes EXCEPT ![MainThread] = SubSeq(sc, 1, Len(sc) - 1)]
  /\ UNCHANGED <<cfgVars, flagVars, m_mutex, m_formatter, tlsVars, m_sinks,
                 sinkMutex, writing, threadVars, now, m_pInstance>>

\* The caller sets a key of the map it shares with an open guard:
\* (*mapPtr)[a_key] = a_value.
MutateMapCall(i, a_key, a_value) ==
  /\ i \in 1..Len(scopes[MainThread])
  /\ "m_mapDataPtr" \in DOMAIN scopes[MainThread][i]
  /\ scopes[MainThread][i].m_mapDataPtr # NullMapPtr
  /\ scopes' = [scopes EXCEPT ![MainThread][i].m_mapDataPtr[1] =
                                  MapSet(@, a_key, a_value)]
  /\ call' = [NoCall EXCEPT !.op = "mutateMap"]
  /\ UNCHANGED <<cfgVars, flagVars, m_mutex, m_formatter, tlsVars, sinkVars,
                 threadVars, now, m_pInstance>>

(***************************************************************************)
(* SpecBlock: one thread, with a sink registered and channel A enabled at  *)
(* info, opens and closes block scopes that share a map with the caller,   *)
(* changes the shared map and logs inside the scopes; the formatter is     *)
(* chosen before the first line is written.                                *)
(* SpecBlockFilter: the same thread also sets the filters up again at any  *)
(* point, and enters scopes at level off as well.                          *)
(***************************************************************************)
MaxEntries == 3       \* a scope is entered or a line logged only while s1 holds fewer lines

BlockSetups == { <<Str_A_info, LevelToHumanString(off)>>,
                 <<<<>>, LevelToHumanString(off)>> }
BlockLevels == { off, info }
BlockMessages == { <<"f">>, <<"g">> }
BlockMapPtrs == { NullMapPtr, MapPtr(EmptyMap) }
BlockValues == { 456 }

InitBlock ==
  /\ LET r == setupFilters(NoFilters, off, Str_A_info, LevelToHumanString(off))
     IN  RegistryWith(r.filters, r.defaultLevel)
  /\ call = NoCall

Room == Len(streams["s1"]) < MaxEntries

NextBlock ==
  \/ m_sinks = <<>> /\ AddSinkCall("s1")
  \/ m_sinks # <<>> /\ streams["s1"] = <<>>
       /\ \E f \in {StdFormatter, JSONFormatter} : SetFormatterCall(f)
  \/ m_sinks # <<>> /\ Room
       /\ \E msg \in BlockMessages, ptr \in BlockMapPtrs :
            ScopedBlockEnter(<<"A">>, info, msg, ptr)
  \/ ScopedBlockExit
  \/ \E i \in 1..MaxScopes, v \in BlockValues : MutateMapCall(i, "foo", v)
  \/ scopes[MainThread] # <<>> /\ Room /\ ALOGCall(<<"A">>, info, <<"m">>, EmptyMap)

SpecBlock == InitBlock /\ [][NextBlock]_vars

NextBlockFilter ==
  \/ m_sinks = <<>> /\ AddSinkCall("s1")
  \/ m_sinks # <<>> /\ \E sd \in BlockSetups : SetupFiltersCall(sd[1], sd[2])
  \/ m_sinks # <<>> /\ streams["s1"] = <<>>
       /\ \E f \in {StdFormatter, JSONFormatter} : SetFormatterCall(f)
  \/ m_sinks # <<>> /\ Room
       /\ \E lvl \in BlockLevels : ScopedBlockEnter(<<"A">>, lvl, <<"f">>, NullMapPtr)
  \/ ScopedBlockExit

SpecBlockFilter == InitBlock /\ [][NextBlockFilter]_vars

(***************************************************************************)
(* std::chrono::high_resolution_clock (logger.cpp:656, 662, 670,           *)
(* logger.hpp:299).  The variable now is its reading in nanoseconds since  *)
(* its epoch; a default-constructed time_point is the epoch.  The standard *)
(* leaves open whether the clock is steady, and libstdc++ makes it the     *)
(* system clock: its reading advances, and it is set back when the system  *)
(* time is adjusted.                                                        *)
(***************************************************************************)
ClockReadings ==
  { 0, 1, 999, 1000, 999999, 1000000, 99999996, 100000000, 999999999, 1000000000 }
Epoch == 0

\* Time passes.
Tick(reading) ==
  /\ reading > now
  /\ now' = reading
  /\ call' = [NoCall EXCEPT !.op = "tick"]
  /\ UNCHANGED <<cfgVars, flagVars, m_mutex, m_formatter, tlsVars, sinkVars,
                 threadVars, scopes, m_pInstance>>

\* The system time is set back.
ClockSetBack(reading) ==
  /\ reading < now
  /\ now' = reading
  /\ call' = [NoCall EXCEPT !.op = "clockSetBack"]
  /\ UNCHANGED <<cfgVars, flagVars, m_mutex, m_formatter, tlsVars, sinkVars,
                 threadVars, scopes, m_pInstance>>

\* std::chrono::duration_cast to a coarser unit: the quotient, rounded toward zero.
duration_cast(ns, perUnit) ==
  IF ns >= 0 THEN ns \div perUnit ELSE 0 - ((0 - ns) \div perUnit)

\* The conversion of an integer count to float (24 significant bits, round to
\* nearest, ties to even), as an integer again.
RECURSIVE FloatUlp(_, _)
FloatUlp(n, u) == IF n \div u < 16777216 THEN u ELSE FloatUlp(n, 2 * u)

ToFloat(n) ==
  IF n < 0 THEN 0 - (LET m == 0 - n
                         u == FloatUlp(m, 1)
                         q == m \div u
                         r == m % u
                     IN  IF 2 * r > u \/ (2 * r = u /\ q % 2 = 1)
                         THEN (q + 1) * u ELSE q * u)
  ELSE LET u == FloatUlp(n, 1)
           q == n \div u
           r == n % u
       IN  IF 2 * r > u \/ (2 * r = u /\ q % 2 = 1) THEN (q + 1) * u ELSE q * u

(***************************************************************************)
(* CLogScopedTimer (logger.hpp:281-300, logger.cpp:644-713).  m_t0 is set  *)
(* by the constructor only when the filter admits the scope; the           *)
(* destructor asks the filter again, picks the unit of the message from    *)
(* the float val, copies the shared map and adds duration_ms.              *)
(* The fields after m_t0 are not members: they record what the constructor *)
(* saw, the queries made, and the clock reading at construction.           *)
(***************************************************************************)
CLogScopedTimer(a_channelName, a_level, a_msg, a_mapDataPtr, enabled) ==
  [kind |-> "CLogScopedTimer", m_channelName |-> a_channelName, m_level |-> a_level,
   m_msg |-> a_msg, m_mapDataPtr |-> a_mapDataPtr,
   m_t0 |-> IF enabled THEN now ELSE Epoch,
   enabledAtEntry |-> enabled, mapAtEntry |-> Deref(a_mapDataPtr),
   queried |-> FALSE, lastNS |-> 0, constructedAt |-> now]

\* unsigned long getCurrentDurationNS(): the count converted to unsigned long.
\* The 64 bits of the result are given by the signed integer with the same bits.
getCurrentDurationNS(g) == now - g.m_t0

\* a <= b, for unsigned long values given by the signed integers with the same bits
ULongLeq(a, b) ==
  \/ a >= 0 /\ b >= 0 /\ a <= b
  \/ a < 0 /\ b < 0 /\ a <= b
  \/ a >= 0 /\ b < 0

\* The value and the suffix streamed after m_msg (logger.cpp:672-698).
TimerMessage(ns) ==
  LET val == ToFloat(ns)
  IN  IF val >= 100000000 THEN [val |-> ToFloat(duration_cast(ns, 1000000000)), suffix |-> "s"]
      ELSE IF val >= 1000000 THEN [val |-> ToFloat(duration_cast(ns, 1000000)), suffix |-> "ms"]
      ELSE IF val >= 1000 THEN [val |-> ToFloat(duration_cast(ns, 1000)), suffix |-> "us"]
      ELSE [val |-> val, suffix |-> "ns"]

NotLogged == [thrown |-> FALSE, ret |-> FALSE, entry |-> FALSE, lines |-> <<>>,
              streams |-> streams]

\* ~CLogScopedTimer
CLogScopedTimer_dtor(g) ==
  IF filter(m_filters, m_defaultLevel, g.m_channelName, g.m_level)
  THEN LET d == TimerMessage(now - g.m_t0)
           mapOut == IF g.m_mapDataPtr # NullMapPtr THEN Deref(g.m_mapDataPtr)
                                                    ELSE EmptyMap
       IN  ALOG_LEVEL_IMPL(g.m_channelName, g.m_level,
                           g.m_msg \o <<ToString(d.val), d.suffix>>,
                           MapSet(mapOut, "duration_ms",
                                  duration_cast(now - g.m_t0, 1000000)))
  ELSE NotLogged

\* ALOG_SCOPED_TIMER / ALOG_NEW_SCOPED_TIMER: CLogScopedTimer's constructor.
\* When filter throws, no guard exists and no destructor runs.
ScopedTimerEnter(ch, lvl, msg, ptr) ==
  /\ Len(scopes[MainThread]) < MaxScopes
  /\ IF filterThrows(lvl)
     THEN /\ call' = [NoCall EXCEPT !.op = "scopeEnter", !.a_channel = ch,
                                    !.a_level = lvl, !.thrown = TRUE,
                                    !.kind = "CLogScopedTimer"]
          /\ UNCHANGED scopes
     ELSE LET enabled == filter(m_filters, m_defaultLevel, ch, lvl)
          IN  /\ scopes' = [scopes EXCEPT ![MainThread] =
                              Append(@, CLogScopedTimer(ch, lvl, msg, ptr, enabled))]
              /\ call' = [NoCall EXCEPT !.op = "scopeEnter", !.a_channel = ch,
                                        !.a_level = lvl, !.ret = enabled,
                                        !.kind = "CLogScopedTimer", !.a_msg = msg]
  /\ UNCHANGED <<cfgVars, flagVars, m_mutex, m_formatter, tlsVars, sinkVars,
                 threadVars, now, m_pInstance>>

\* timer.getCurrentDurationNS() on a timer that is alive
GetCurrentDurationNSCall(i) ==
  /\ i \in 1..Len(scopes[MainThread])
  /\ scopes[MainThread][i].kind = "CLogScopedTimer"
  /\ LET g == scopes[MainThread][i]
         ns == getCurrentDurationNS(g)
     IN  /\ call' = [NoCall EXCEPT !.op = "getCurrentDurationNS", !.guard = g,
                                   !.val = ns]
         /\ scopes' = [scopes EXCEPT ![MainThread][i].queried = TRUE,
                                     ![MainThread][i].lastNS = ns]
  /\ UNCHANGED <<cfgVars, flagVars, m_mutex, m_formatter, tlsVars, sinkVars,
                 threadVars, now, m_pInstance>>

\* The innermost guard, a CLogScopedTimer, goes out of scope.
ScopedTimerExit ==
  /\ scopes[MainThread] # <<>>
  /\ LET sc == scopes[MainThread]
         g == sc[Len(sc)]
     IN  /\ g.kind = "CLogScopedTimer"
         /\ LET r == CLogScopedTimer_dtor(g)
            IN  /\ streams' = r.streams
                /\ call' = [NoCall EXCEPT !.op = "scopeExit", !.guard = g,
                                          !.ret = r.ret, !.entry = r.entry,
                                          !.lines = r.lines,
                                          !.a_mapData = Deref(g.m_mapDataPtr),
                                          !.kind = "CLogScopedTimer",
                                          !.preStreams = streams,
                                          !.val = now - g.m_t0]
         /\ scopes' = [scopes EXCEPT ![MainThread] = SubSeq(sc, 1, Len(sc) - 1)]
  /\ UNCHANGED <<cfgVars, flagVars, m_mutex, m_formatter, tlsVars, m_sinks,
                 sinkMutex, writing, threadVars, now, m_pInstance>>

(***************************************************************************)
(* SpecScopeMap: one thread, with channel A enabled at info, opens and     *)
(* closes block scopes and timer scopes that may share a map with the      *)
(* caller, changes the shared maps and changes the formatter, while time   *)
(* passes.  No sink is registered: the lines of the last entry are in      *)
(* `call`.                                                                  *)
(***************************************************************************)
TimerMapPtrs == { NullMapPtr, MapPtr(EmptyMap) }
ScopeMapReadings == { 1000000, 100000000 }

NextScopeMap ==
  \/ \E f \in {StdFormatter, JSONFormatter} : SetFormatterCall(f)
  \/ \E ptr \in TimerMapPtrs : ScopedTimerEnter(<<"A">>, info, <<"t">>, ptr)
  \/ ScopedTimerExit
  \/ \E ptr \in TimerMapPtrs : ScopedBlockEnter(<<"A">>, info, <<"f">>, ptr)
  \/ ScopedBlockExit
  \/ \E i \in 1..MaxScopes, v \in BlockValues : MutateMapCall(i, "foo", v)
  \/ \E reading \in ScopeMapReadings : Tick(reading)

SpecScopeMap == InitBlock /\ [][NextScopeMap]_vars

(***************************************************************************)
(* SpecTimer: one thread opens and closes timer scopes, asks live timers   *)
(* for the time elapsed and sets the filters up again, while time passes   *)
(* and the system time is set back.  No sink is registered.                *)
(* SpecTimerSteady: the same with a clock that is never set back.          *)
(* SpecTimerUnits: one timer at a time on an enabled channel and a clock   *)
(* that is never set back, with elapsed times on both sides of every       *)
(* threshold of the destructor.                                             *)
(***************************************************************************)
TimerReadings == { 1000000, 3000000, 5000000 }

NextTimerSteady ==
  \/ \E sd \in BlockSetups : SetupFiltersCall(sd[1], sd[2])
  \/ \E lvl \in BlockLevels : ScopedTimerEnter(<<"A">>, lvl, <<"t">>, NullMapPtr)
  \/ ScopedTimerExit
  \/ \E i \in 1..MaxScopes : GetCurrentDurationNSCall(i)
  \/ \E reading \in TimerReadings : Tick(reading)

SpecTimerSteady == InitBlock /\ [][NextTimerSteady]_vars

NextTimer ==
  \/ \E sd \in BlockSetups : SetupFiltersCall(sd[1], sd[2])
  \/ \E lvl \in BlockLevels : ScopedTimerEnter(<<"A">>, lvl, <<"t">>, NullMapPtr)
  \/ ScopedTimerExit
  \/ \E i \in 1..MaxScopes : GetCurrentDurationNSCall(i)
  \/ \E reading \in TimerReadings : Tick(reading)
  \/ \E reading \in TimerReadings : ClockSetBack(reading)

SpecTimer == InitBlock /\ [][NextTimer]_vars

NextTimerUnits ==
  \/ \E f \in {StdFormatter, JSONFormatter} : SetFormatterCall(f)
  \/ scopes[MainThread] = <<>> /\ ScopedTimerEnter(<<"A">>, info, <<"t">>, NullMapPtr)
  \/ ScopedTimerExit
  \/ \E reading \in ClockReadings : Tick(reading)

SpecTimerUnits == InitBlock /\ [][NextTimerUnits]_vars

(***************************************************************************)
(* SpecCtor: one thread changes the filters, the formatter and the         *)
(* metadata flag, and constructs and destroys scope guards of every kind   *)
(* on every channel and at every level of ELogLevel, one guard at a time   *)
(* (no sink is registered: the lines of the last call are in `call`).      *)
(***************************************************************************)
CtorChannels == { <<"A">>, <<"B">> }
CtorMessages == { <<"f">> }

NextCtor ==
  \/ \E sd \in BlockSetups : SetupFiltersCall(sd[1], sd[2])
  \/ \E f \in {NullFormatter, StdFormatter, JSONFormatter} : SetFormatterCall(f)
  \/ EnableMetadataCall
  \/ DisableMetadataCall
  \/ NoGuard /\ \E ch \in CtorChannels, lvl \in ELogLevels, msg \in CtorMessages,
                   ptr \in BlockMapPtrs : ScopedBlockEnter(ch, lvl, msg, ptr)
  \/ ScopedBlockExit
  \/ NoGuard /\ \E ch \in CtorChannels, lvl \in ELogLevels, msg \in CtorMessages,
                   ptr \in BlockMapPtrs : ScopedTimerEnter(ch, lvl, msg, ptr)
  \/ ScopedTimerExit
  \/ NoGuard /\ ScopedIndentEnter
  \/ NoGuard /\ \E ch \in CtorChannels, lvl \in ELogLevels : ScopedIndentIfEnter(ch, lvl)
  \/ ScopedIndentExit
  \/ NoGuard /\ \E k \in {"k1"}, v \in MetadataValues : ScopedMetadataEnterKV(k, v)
  \/ NoGuard /\ \E m \in MetadataMaps : ScopedMetadataEnterMap(m)
  \/ ScopedMetadataExit

SpecCtor == InitBlock /\ [][NextCtor]_vars

(***************************************************************************)
(* ALOG_THREAD / ALOG_THREADthis (logger.hpp:579-603), enableThreadID and  *)
(* disableThreadID (logger.cpp:404-414), threadIDEnabled (logger.hpp:163). *)
(* The macro reads the flag without a lock into the local                  *)
(* currentlyEnabled; when it read false it calls enableThreadID, then      *)
(* ALOG, then disableThreadID.  enableThreadID and disableThreadID lock    *)
(* m_mutex, assign m_doThreadLog and unlock.  The formatter reads the flag *)
(* again, without a lock, when it formats the entry (LogFormat).  An       *)
(* exception thrown by ALOG leaves the block at once.                       *)
(***************************************************************************)
CallALOG_THREAD(t, ch, lvl, msg) ==
  /\ pc[t] = "idle"
  /\ pc' = [pc EXCEPT ![t] = "thread_read"]
  /\ frame' = [frame EXCEPT ![t] = [IdleFrame EXCEPT !.op = "ALOG", !.macro = "ALOG_THREAD",
                                                      !.a_channel = ch, !.a_level = lvl,
                                                      !.a_msg = msg]]
  /\ UNCHANGED <<cfgVars, flagVars, m_mutex, m_formatter, tlsVars, sinkVars, call,
                 scopes, now, m_pInstance>>

\* bool currentlyEnabled = sngl->threadIDEnabled();
\* if (not currentlyEnabled) sngl->enableThreadID();
ThreadIDEnabledRead(t) ==
  /\ pc[t] = "thread_read"
  /\ frame' = [frame EXCEPT ![t].currentlyEnabled = m_doThreadLog,
                            ![t].op = IF m_doThreadLog THEN "ALOG" ELSE "enableThreadID"]
  /\ pc' = [pc EXCEPT ![t] = IF m_doThreadLog THEN "filter" ELSE "lock"]
  /\ UNCHANGED <<cfgVars, flagVars, m_mutex, m_formatter, tlsVars, sinkVars, call,
                 scopes, now, m_pInstance>>

\* A thread calls enableThreadID or disableThreadID itself.
CallThreadID(t, op) ==
  /\ pc[t] = "idle"
  /\ pc' = [pc EXCEPT ![t] = "lock"]
  /\ frame' = [frame EXCEPT ![t] = [IdleFrame EXCEPT !.op = op]]
  /\ UNCHANGED <<cfgVars, flagVars, m_mutex, m_formatter, tlsVars, sinkVars, call,
                 scopes, now, m_pInstance>>

\* m_doThreadLog = true / false under the lock; the end of the scope unlocks.
\* Inside ALOG_THREAD, ALOG follows enableThreadID.
ThreadIDBody(t) ==
  /\ pc[t] = "body"
  /\ frame[t].op \in {"enableThreadID", "disableThreadID"}
  /\ m_doThreadLog' = (frame[t].op = "enableThreadID")
  /\ m_mutex' = NoThread
  /\ IF frame[t].macro = "ALOG_THREAD" /\ frame[t].op = "enableThreadID"
     THEN /\ pc' = [pc EXCEPT ![t] = "filter"]
          /\ frame' = [frame EXCEPT ![t].op = "ALOG"]
     ELSE /\ pc' = [pc EXCEPT ![t] = "return"]
          /\ UNCHANGED frame
  /\ UNCHANGED <<cfgVars, m_doMetadata, m_serviceName, m_formatter, tlsVars, sinkVars,
                 call, scopes, now, m_pInstance>>

\* if (not currentlyEnabled) sngl->disableThreadID();
ThreadIDRestore(t) ==
  /\ pc[t] = "return"
  /\ MacroGoesOn(t)
  /\ pc' = [pc EXCEPT ![t] = "lock"]
  /\ frame' = [frame EXCEPT ![t].op = "disableThreadID"]
  /\ UNCHANGED <<cfgVars, flagVars, m_mutex, m_formatter, tlsVars, sinkVars, call,
                 scopes, now, m_pInstance>>

(***************************************************************************)
(* SpecThreadLog: the registry as setupFilters("", "info") leaves it, with *)
(* no sink (the lines a call built stay in its frame until it returns);    *)
(* the threads log with ALOG_THREAD, and enable and disable the thread-ID  *)
(* flag themselves, in any interleaving of their steps.                    *)
(***************************************************************************)
ThreadLevels == { off, info }

NextThreadLog ==
  \/ \E t \in Threads, ch \in ConcChannels, lvl \in ThreadLevels, msg \in ConcMessages :
       CallALOG_THREAD(t, ch, lvl, msg)
  \/ \E t \in Threads : ThreadIDEnabledRead(t)
  \/ \E t \in Threads, op \in {"enableThreadID", "disableThreadID"} : CallThreadID(t, op)
  \/ \E t \in Threads : Lock(t)
  \/ \E t \in Threads : ThreadIDBody(t)
  \/ \E t \in Threads : FilterFind(t)
  \/ \E t \in Threads : FilterRet(t)
  \/ \E t \in Threads : LogEntry(t)
  \/ \E t \in Threads : LogFormat(t)
  \/ \E t \in Threads : LogSinks(t)
  \/ \E t \in Threads : ThreadIDRestore(t)
  \/ \E t \in Threads : Return(t)

SpecThreadLog == InitLogging /\ [][NextThreadLog]_vars

(***************************************************************************)
(* The text of a JSON line: j.dump() + "\n" (logger.cpp:367), and          *)
(* json::parse, with which the tests read a line back                      *)
(* (logger_test.cpp:175-180).  A text is a sequence of pieces; a piece is  *)
(* one character, or a word without a quote, a backslash or a newline.     *)
(* dump writes the members in the order of their keys, with no white       *)
(* space; in a string it writes \" for a quote, \\ for a backslash and \n  *)
(* for a newline.  The json type of a value is the one its key has in the  *)
(* model: the formatter's own fields have the types the formatter gives    *)
(* them, and a caller's value under such a key has that type too.          *)
(***************************************************************************)
DigitChars == <<"0", "1", "2", "3", "4", "5", "6", "7", "8", "9">>

\* The keys of the json objects of the model, in the order std::map iterates them.
DumpKeys == <<"channel", "duration_ms", "foo", "k1", "k2", "level_str", "message",
              "metadata", "num_indent", "service_name", "thread_id", "timestamp">>

JsonType(key) ==
  IF key \in {"duration_ms", "foo", "k1", "k2", "num_indent"} THEN "number"
  ELSE IF key = "metadata" THEN "object"
  ELSE IF key \in {"thread_id", "timestamp"} THEN "word"
  ELSE "string"

\* The characters of a string value: a word is one piece.
Chars(key, value) == IF JsonType(key) = "word" THEN <<value>> ELSE value

RECURSIVE escape(_)
escape(s) ==
  IF s = <<>> THEN <<>>
  ELSE (IF Head(s) = "\"" THEN <<"\\", "\"">>
        ELSE IF Head(s) = "\\" THEN <<"\\", "\\">>
        ELSE IF Head(s) = "\n" THEN <<"\\", "n">>
        ELSE <<Head(s)>>) \o escape(Tail(s))

dump_string(s) == <<"\"">> \o escape(s) \o <<"\"">>

RECURSIVE dump_digits(_)
dump_digits(n) ==
  IF n < 10 THEN <<DigitChars[n + 1]>>
  ELSE dump_digits(n \div 10) \o <<DigitChars[(n % 10) + 1]>>

dump_number(n) == IF n < 0 THEN <<"-">> \o dump_digits(-n) ELSE dump_digits(n)

RECURSIVE dump_members(_, _, _)
dump(j) == <<"{">> \o dump_members(j, 1, TRUE) \o <<"}">>

dump_members(j, i, first) ==
  IF i > Len(DumpKeys) THEN <<>>
  ELSE LET key == DumpKeys[i]
       IN  IF key \notin DOMAIN j THEN dump_members(j, i + 1, first)
           ELSE (IF first THEN <<>> ELSE <<",">>)
                  \o <<"\"", key, "\"", ":">>
                  \o (IF JsonType(key) = "number" THEN dump_number(j[key])
                      ELSE IF JsonType(key) = "object" THEN dump(j[key])
                      ELSE dump_string(Chars(key, j[key])))
                  \o dump_members(j, i + 1, FALSE)

\* json::parse: a value starts at t[i]; the result is the value and the
\* position after it.  A parsed string is the sequence of its characters.
IsDigit(c) == \E d \in 1..10 : DigitChars[d] = c
DigitValue(c) == (CHOOSE d \in 1..10 : DigitChars[d] = c) - 1

RECURSIVE parse_string(_, _, _)
parse_string(t, i, acc) ==
  IF t[i] = "\"" THEN [v |-> acc, next |-> i + 1]
  ELSE IF t[i] = "\\"
       THEN parse_string(t, i + 2, Append(acc, IF t[i + 1] = "n" THEN "\n" ELSE t[i + 1]))
       ELSE parse_string(t, i + 1, Append(acc, t[i]))

RECURSIVE parse_number(_, _, _)
parse_number(t, i, acc) ==
  IF i <= Len(t) /\ IsDigit(t[i])
  THEN parse_number(t, i + 1, 10 * acc + DigitValue(t[i]))
  ELSE [v |-> acc, next |-> i]

RECURSIVE parse_value(_, _)
RECURSIVE parse_members(_, _, _)
parse_value(t, i) ==
  IF t[i] = "{"
  THEN (IF t[i + 1] = "}" THEN [v |-> EmptyMap, next |-> i + 2]
        ELSE parse_members(t, i + 1, EmptyMap))
  ELSE IF t[i] = "\"" THEN parse_string(t, i + 1, <<>>)
  ELSE IF t[i] = "-"
       THEN LET r == parse_number(t, i + 1, 0) IN [v |-> 0 - r.v, next |-> r.next]
       ELSE parse_number(t, i, 0)

\* t[i] is the quote that opens a key; a key is one word.
parse_members(t, i, acc) ==
  LET k == parse_string(t, i + 1, <<>>)
      val == parse_value(t, k.next + 1)
      obj == MapSet(acc, k.v[1], val.v)
  IN  IF t[val.next] = "," THEN parse_members(t, val.next + 1, obj)
      ELSE [v |-> obj, next |-> val.next + 1]

\* json::parse of a whole line; the newline that ends it is white space.
parse(a_line) == parse_value(a_line, 1).v

\* What parse gives for a value that dump wrote under the key.
AsParsed(key, value) == Chars(key, value)

\* The vector CJSONLogFormatter::formatEntry returns (logger.cpp:334-368).
CJSONLogFormatter_text(a_entry, threadIDEnabled) ==
  LET lines == CJSONLogFormatter_formatEntry(a_entry, threadIDEnabled)
  IN  [i \in 1..Len(lines) |-> dump(lines[i].json) \o <<"\n">>]

(***************************************************************************)
(* SpecFormat: formatEntry of each formatter applied once to an entry, for *)
(* every entry of the input set and both values of the thread-ID flag.     *)
(* The caller's maps have keys of their own, nested objects, and keys with *)
(* the names of the JSON formatter's fields; the messages have newlines,   *)
(* quotes and backslashes.                                                  *)
(***************************************************************************)
FormatChannels == { <<"A">> }
FormatLevels == { info, debug4 }
FormatMessages == { <<>>, <<"m">>, <<"a", "\n", "b">>, <<"a", "\n">>, <<"\n">>,
                    <<"a", "\n", "\n", "b">>, <<"\"", "q", "\\">> }
FormatServiceNames == { <<>>, <<"s">> }
FormatIndents == { 0, 12 }
FormatMapDatas ==
  { EmptyMap,
    MapSet(EmptyMap, "foo", 456),
    MapSet(MapSet(EmptyMap, "foo", 0 - 3), "metadata", MapSet(EmptyMap, "k1", 1)),
    MapSet(EmptyMap, "metadata", MapSet(MapSet(EmptyMap, "k1", 1), "k2", 20)),
    MapSet(EmptyMap, "channel", <<"X">>),
    MapSet(EmptyMap, "num_indent", 7),
    MapSet(EmptyMap, "message", <<"x">>),
    MapSet(EmptyMap, "thread_id", "t9"),
    MapSet(EmptyMap, "service_name", <<"z">>) }

FormatEntries ==
  { CLogEntry(ch, lvl, msg, map, sn, n, MainThread) :
      ch \in FormatChannels, lvl \in FormatLevels, msg \in FormatMessages,
      map \in FormatMapDatas, sn \in FormatServiceNames, n \in FormatIndents }

InitFormat ==
  /\ m_filters = NoFilters
  /\ m_defaultLevel = off
  /\ m_doThreadLog \in BOOLEAN
  /\ m_doMetadata = FALSE
  /\ m_serviceName = <<>>
  /\ m_mutex = NoThread
  /\ m_sinks = <<>>
  /\ m_formatter \in {StdFormatter, JSONFormatter}
  /\ m_indents = [t \in {} |-> 0]
  /\ m_metadata = [t \in {} |-> EmptyMap]
  /\ sinkMutex = [i \in MutexIds |-> NoThread]
  /\ writing = [s \in Streams |-> {}]
  /\ streams = [s \in Streams |-> <<>>]
  /\ pc = [t \in Threads |-> "idle"]
  /\ frame = [t \in Threads |-> IdleFrame]
  /\ scopes = [t \in Threads |-> <<>>]
  /\ now = 0
  /\ m_pInstance = 1
  /\ \E e \in FormatEntries : call = [NoCall EXCEPT !.op = "pending", !.a_entry = e]

\* CStdLogFormatter::formatEntry: the lines are kept as header and content.
StdFormatEntryApply ==
  /\ call.op = "pending"
  /\ m_formatter = StdFormatter
  /\ call' = [call EXCEPT !.op = "formatEntry",
                          !.lines = CStdLogFormatter_formatEntry(call.a_entry, m_doThreadLog)]
  /\ UNCHANGED <<cfgVars, flagVars, m_mutex, m_formatter, tlsVars, sinkVars, threadVars,
                 scopes, now, m_pInstance>>

\* CJSONLogFormatter::formatEntry: the object, and the text returned.
JSONFormatEntryApply ==
  /\ call.op = "pending"
  /\ m_formatter = JSONFormatter
  /\ call' = [call EXCEPT !.op = "formatEntry",
                          !.lines = CJSONLogFormatter_formatEntry(call.a_entry, m_doThreadLog),
                          !.out = CJSONLogFormatter_text(call.a_entry, m_doThreadLog)]
  /\ UNCHANGED <<cfgVars, flagVars, m_mutex, m_formatter, tlsVars, sinkVars, threadVars,
                 scopes, now, m_pInstance>>

NextFormat ==
  \/ StdFormatEntryApply
  \/ JSONFormatEntryApply

SpecFormat == InitFormat /\ [][NextFormat]_vars

(***************************************************************************)
(* ALOG_FUNCTION / ALOG_DETAIL_FUNCTION (logger.hpp:427-436): the macro    *)
(* declares a CLogScope with the message "<function>( <msg> )" and then a  *)
(* conditional CLogScopedIndent for the same channel and level.  At the    *)
(* end of the function the two are destroyed in the reverse order of their *)
(* declaration: the indent guard first, the CLogScope after it.            *)
(***************************************************************************)
FunctionName == <<"fn">>
FunctionMessage(a_msg) == FunctionName \o <<"( ">> \o a_msg \o <<" )">>

\* log (logger.cpp:446-481) for thread tid, whose indents are a_indents.
logLinesAt(a_indents, tid, a_channel, a_level, a_msg, a_mapData) ==
  formatEntry(m_formatter,
              CLogEntry(a_channel, a_level, a_msg,
                        logMapData(a_mapData, m_doMetadata, m_metadata, tid),
                        m_serviceName, getIndent(a_indents, tid), tid),
              m_doThreadLog)

\* ~CLogScope, run when the thread's indents are a_indents.
CLogScope_dtorAt(a_indents, g) ==
  LET enabled == filter(m_filters, m_defaultLevel, g.m_channelName, g.m_level)
      built == enabled /\ m_formatter # NullFormatter
      lines == IF built
               THEN logLinesAt(a_indents, MainThread, g.m_channelName, g.m_level,
                               EndPrefix \o g.m_msg, Deref(g.m_mapDataPtr))
               ELSE <<>>
  IN  [thrown |-> FALSE, ret |-> enabled, entry |-> built, lines |-> lines,
       streams |-> IF built THEN writeLines(lines, m_sinks, streams) ELSE streams]

\* Variant: the CLogScope is destroyed before the indent guard.
ALOG_FUNCTION_exit_blockFirst(gs, gi) ==
  [indents |-> CLogScopedIndent_dtor(gi, m_indents, MainThread),
   r |-> CLogScope_dtorAt(m_indents, gs)]

\* The end of the function's block: ~CLogScopedIndent, then ~CLogScope.
ALOG_FUNCTION_exit(gs, gi) ==
  LET indents == CLogScopedIndent_dtor(gi, m_indents, MainThread)
  IN  [indents |-> indents, r |-> CLogScope_dtorAt(indents, gs)]

\* ALOG_FUNCTION(channel, level, msg [, mapPtr]) at the top of a function.
\* When filter throws in CLogScope's constructor, neither guard exists.
FunctionEnter(ch, lvl, msg, ptr) ==
  /\ NoGuard
  /\ LET r == ALOG_LEVEL_IMPL(ch, lvl, StartPrefix \o FunctionMessage(msg), Deref(ptr))
         enabled == ~r.thrown /\ filter(m_filters, m_defaultLevel, ch, lvl)
         d == getIndent(m_indents, MainThread)
     IN  /\ streams' = r.streams
         /\ m_indents' = IF enabled THEN addIndent(m_indents, MainThread) ELSE m_indents
         /\ scopes' = IF r.thrown THEN scopes
                      ELSE [scopes EXCEPT ![MainThread] =
                              <<CLogScope(ch, lvl, FunctionMessage(msg), ptr, r),
                                CLogScopedIndent(enabled, TRUE, ch, lvl, d)>>]
         /\ call' = [NoCall EXCEPT !.op = "functionEnter", !.a_channel = ch,
                                   !.a_level = lvl, !.thrown = r.thrown,
                                   !.ret = r.ret, !.entry = r.entry,
                                   !.lines = r.lines, !.a_mapData = Deref(ptr),
                                   !.a_msg = msg, !.val = d,
                                   !.preStreams = streams]
  /\ UNCHANGED <<cfgVars, flagVars, m_mutex, m_formatter, m_metadata, m_sinks,
                 sinkMutex, writing, threadVars, now, m_pInstance>>

\* The function returns: its two guards go out of scope.
FunctionExit ==
  /\ Len(scopes[MainThread]) = 2
  /\ LET gs == scopes[MainThread][1]
         gi == scopes[MainThread][2]
     IN  /\ gs.kind = "CLogScope"
         /\ gi.kind = "CLogScopedIndent" /\ gi.conditional
         /\ LET x == ALOG_FUNCTION_exit(gs, gi)
            IN  /\ m_indents' = x.indents
                /\ streams' = x.r.streams
                /\ call' = [NoCall EXCEPT !.op = "functionExit", !.guard = gi,
                                          !.ret = x.r.ret, !.entry = x.r.entry,
                                          !.lines = x.r.lines,
                                          !.a_mapData = Deref(gs.m_mapDataPtr),
                                          !.a_msg = gs.m_msg,
                                          !.preStreams = streams]
         /\ scopes' = [scopes EXCEPT ![MainThread] = <<>>]
  /\ UNCHANGED <<cfgVars, flagVars, m_mutex, m_formatter, m_metadata, m_sinks,
                 sinkMutex, writing, threadVars, now, m_pInstance>>

(***************************************************************************)
(* SpecFunction: one thread, at some indent, enters a function that starts *)
(* with ALOG_FUNCTION, logs in its body, where the filters may be set up   *)
(* again, and returns.  No sink is registered: the lines of the last call  *)
(* are in `call`.                                                           *)
(***************************************************************************)
FunctionLevels == { off, info, debug }
FunctionMessages == { <<>>, <<"a">>, <<"a", "\n", "b">> }
FunctionMapPtrs == { NullMapPtr, MapPtr([k \in {"foo"} |-> 456]) }

NextFunction ==
  \/ \E sd \in BlockSetups : SetupFiltersCall(sd[1], sd[2])
  \/ NoGuard /\ \E f \in {StdFormatter, JSONFormatter} : SetFormatterCall(f)
  \/ AddIndentCall
  \/ NoGuard /\ RemoveIndentCall
  \/ \E lvl \in FunctionLevels, msg \in FunctionMessages, ptr \in FunctionMapPtrs :
       FunctionEnter(<<"A">>, lvl, msg, ptr)
  \/ \E lvl \in FunctionLevels, msg \in FunctionMessages :
       ALOGCall(<<"A">>, lvl, msg, EmptyMap)
  \/ FunctionExit

SpecFunction == InitBlock /\ [][NextFunction]_vars

(***************************************************************************)
(* SpecEntryLines: the main thread registers sinks, and then the threads   *)
(* log, each its own two-line message, in any interleaving of their steps. *)
(***************************************************************************)
EntryMessages == [t \in Threads |-> IF t = MainThread THEN <<"a", "\n", "b">>
                                                      ELSE <<"c", "\n", "d">>]

NextEntryLines ==
  \/ /\ \A t \in Threads : pc[t] = "idle"
     /\ \A st \in Streams : streams[st] = <<>>
     /\ \E st \in Streams : AddSinkCall(st)
  \/ m_sinks # <<>> /\ \E t \in Threads : CallALOG(t, <<"A">>, info, EntryMessages[t])
  \/ \E t \in Threads : FilterFind(t)
  \/ \E t \in Threads : FilterRet(t)
  \/ \E t \in Threads : LogEntry(t)
  \/ \E t \in Threads : LogFormat(t)
  \/ \E t \in Threads : LogSinks(t)
  \/ \E t \in Threads : LogLock(t)
  \/ \E t \in Threads : LogWrite(t)
  \/ \E t \in Threads : Return(t)

SpecEntryLines == InitLogging /\ [][NextEntryLines]_vars

(***************************************************************************)
(* instance (logger.cpp:372-382).  Every macro and every guard reaches the *)
(* registry as instance()->method(...).  instance tests the static         *)
(* m_pInstance and, when it is empty, assigns it a new registry object and *)
(* then sets that object's formatter; no lock is taken around the test and *)
(* the assignment.  The member variables of the model are those of the     *)
(* object m_pInstance owns: an assignment to m_pInstance destroys the      *)
(* object it owned, and the members are those of the new object, as the    *)
(* constructor leaves them (logger.hpp:222-226, m_formatter empty).  While *)
(* m_pInstance is empty the members are not read.  A step is one statement *)
(* of instance, or the whole of the method called through the reference    *)
(* instance returned.                                                      *)
(***************************************************************************)
InitInstance ==
  /\ m_pInstance = NullInstance
  /\ m_filters = NoFilters
  /\ m_defaultLevel = off
  /\ m_doThreadLog = FALSE
  /\ m_doMetadata = FALSE
  /\ m_serviceName = <<>>
  /\ m_mutex = NoThread
  /\ m_sinks = <<>>
  /\ m_formatter = NullFormatter
  /\ m_indents = [t \in {} |-> 0]
  /\ m_metadata = [t \in {} |-> EmptyMap]
  /\ sinkMutex = [i \in MutexIds |-> NoThread]
  /\ writing = [s \in Streams |-> {}]
  /\ streams = [s \in Streams |-> <<>>]
  /\ pc = [t \in Threads |-> "idle"]
  /\ frame = [t \in Threads |-> IdleFrame]
  /\ scopes = [t \in Threads |-> <<>>]
  /\ now = 0
  /\ call = NoCall

\* instance()->setupFilters(a_filterSpec, a_defaultLevelSpec)
CallInstanceSetupFilters(t, a_filterSpec, a_defaultLevelSpec) ==
  /\ pc[t] = "idle"
  /\ pc' = [pc EXCEPT ![t] = "instance_if"]
  /\ frame' = [frame EXCEPT ![t] =
                 [IdleFrame EXCEPT !.op = "setupFilters", !.method = "setupFilters",
                                   !.a_filterSpec = a_filterSpec,
                                   !.a_defaultLevelSpec = a_defaultLevelSpec]]
  /\ UNCHANGED <<cfgVars, flagVars, m_mutex, m_formatter, tlsVars, sinkVars, call,
                 scopes, now, m_pInstance>>

\* ALOG (logger.hpp:366-380): instance()->filter(...) and, when it returns
\* true, instance()->log(...).  configs keeps the configuration under which
\* the channel and level were enabled when the macro started, if they were.
CallInstanceALOG(t, ch, lvl, msg) ==
  /\ pc[t] = "idle"
  /\ pc' = [pc EXCEPT ![t] = "instance_if"]
  /\ frame' = [frame EXCEPT ![t] =
                 [IdleFrame EXCEPT !.op = "ALOG", !.method = "filter",
                                   !.a_channel = ch, !.a_level = lvl, !.a_msg = msg,
                                   !.configs =
                                      IF /\ m_pInstance # NullInstance
                                         /\ filter(m_filters, m_defaultLevel, ch, lvl)
                                      THEN { Config(m_filters, m_defaultLevel) }
                                      ELSE {}]]
  /\ UNCHANGED <<cfgVars, flagVars, m_mutex, m_formatter, tlsVars, sinkVars, call,
                 scopes, now, m_pInstance>>

\* if (not m_pInstance)
InstanceIf(t) ==
  /\ pc[t] = "instance_if"
  /\ pc' = [pc EXCEPT ![t] = IF m_pInstance = NullInstance THEN "instance_new"
                                                           ELSE "instance_return"]
  /\ UNCHANGED <<cfgVars, flagVars, m_mutex, m_formatter, tlsVars, sinkVars, frame,
                 call, scopes, now, m_pInstance>>

\* m_pInstance = Ptr(new CLogChannelRegistrySingleton())
InstanceNew(t) ==
  /\ pc[t] = "instance_new"
  /\ m_pInstance' = m_pInstance + 1
  /\ m_filters' = NoFilters
  /\ m_defaultLevel' = off
  /\ m_doThreadLog' = FALSE
  /\ m_doMetadata' = FALSE
  /\ m_serviceName' = <<>>
  /\ m_mutex' = NoThread
  /\ m_sinks' = <<>>
  /\ m_formatter' = NullFormatter
  /\ m_indents' = [x \in {} |-> 0]
  /\ m_metadata' = [x \in {} |-> EmptyMap]
  /\ pc' = [pc EXCEPT ![t] = "instance_setFormatter"]
  /\ UNCHANGED <<sinkMutex, writing, streams, frame, call, scopes, now>>

\* m_pInstance->setFormatter(Ptr(new CStdLogFormatter()))
InstanceSetFormatter(t) ==
  /\ pc[t] = "instance_setFormatter"
  /\ m_mutex = NoThread
  /\ m_formatter' = StdFormatter
  /\ pc' = [pc EXCEPT ![t] = "instance_return"]
  /\ UNCHANGED <<cfgVars, flagVars, m_mutex, tlsVars, sinkVars, frame, call, scopes,
                 now, m_pInstance>>

\* return m_pInstance
InstanceReturn(t) ==
  /\ pc[t] = "instance_return"
  /\ frame' = [frame EXCEPT ![t].instance = m_pInstance]
  /\ pc' = [pc EXCEPT ![t] = "method"]
  /\ UNCHANGED <<cfgVars, flagVars, m_mutex, m_formatter, tlsVars, sinkVars, call,
                 scopes, now, m_pInstance>>

\* ->setupFilters(...)
InstanceSetupFilters(t) ==
  /\ pc[t] = "method" /\ frame[t].method = "setupFilters"
  /\ m_mutex = NoThread
  /\ LET r == setupFilters(m_filters, m_defaultLevel, frame[t].a_filterSpec,
                           frame[t].a_defaultLevelSpec)
     IN  /\ m_filters' = r.filters
         /\ m_defaultLevel' = r.defaultLevel
         /\ frame' = [frame EXCEPT ![t].thrown = r.thrown]
  /\ pc' = [pc EXCEPT ![t] = "return"]
  /\ UNCHANGED <<flagVars, m_mutex, m_formatter, tlsVars, sinkVars, call, scopes, now,
                 m_pInstance>>

\* ->filter(...): when it returns true the macro goes on to instance()->log.
InstanceFilter(t) ==
  /\ pc[t] = "method" /\ frame[t].method = "filter"
  /\ LET thrown == filterThrows(frame[t].a_level)
         ret == ~thrown /\ filter(m_filters, m_defaultLevel, frame[t].a_channel,
                                  frame[t].a_level)
     IN  /\ frame' = [frame EXCEPT ![t].thrown = thrown, ![t].ret = ret,
                                   ![t].method = IF ret THEN "log" ELSE @]
         /\ pc' = [pc EXCEPT ![t] = IF ret THEN "instance_if" ELSE "return"]
  /\ UNCHANGED <<cfgVars, flagVars, m_mutex, m_formatter, tlsVars, sinkVars, call,
                 scopes, now, m_pInstance>>

\* ->log(...): returns at once when m_formatter is empty.
InstanceLog(t) ==
  /\ pc[t] = "method" /\ frame[t].method = "log"
  /\ LET built == m_formatter # NullFormatter
         lines == IF built
                  THEN logLinesAt(m_indents, t, frame[t].a_channel, frame[t].a_level,
                                  frame[t].a_msg, EmptyMap)
                  ELSE <<>>
     IN  /\ frame' = [frame EXCEPT ![t].dropped = ~built, ![t].lines = lines,
                                   ![t].sinksAtCall = m_sinks]
         /\ streams' = writeLines(lines, m_sinks, streams)
  /\ pc' = [pc EXCEPT ![t] = "return"]
  /\ UNCHANGED <<cfgVars, flagVars, m_mutex, m_formatter, tlsVars, m_sinks, sinkMutex,
                 writing, call, scopes, now, m_pInstance>>

(***************************************************************************)
(* SpecInstance: the process starts with m_pInstance empty; the threads    *)
(* call setupFilters("", "info") and log on channel A at info, each call   *)
(* through instance(), in any interleaving of their steps.                 *)
(***************************************************************************)
NextInstance ==
  \/ \E t \in Threads : CallInstanceSetupFilters(t, <<>>, LevelToHumanString(info))
  \/ \E t \in Threads : CallInstanceALOG(t, <<"A">>, info, <<"m">>)
  \/ \E t \in Threads : InstanceIf(t)
  \/ \E t \in Threads : InstanceNew(t)
  \/ \E t \in Threads : InstanceSetFormatter(t)
  \/ \E t \in Threads : InstanceReturn(t)
  \/ \E t \in Threads : InstanceSetupFilters(t)
  \/ \E t \in Threads : InstanceFilter(t)
  \/ \E t \in Threads : InstanceLog(t)
  \/ \E t \in Threads : Return(t)

SpecInstance == InitInstance /\ [][NextInstance]_vars

(***************************************************************************)
(* ALOG_MAP (logger.hpp:398-399): ALOG_LEVEL_IMPL with the empty message.  *)
(***************************************************************************)
ALOG_MAPCall(ch, lvl, map) ==
  LET r == ALOG_LEVEL_IMPL(ch, lvl, <<>>, map)
  IN  /\ streams' = r.streams
      /\ call' = [NoCall EXCEPT !.op = "ALOG_MAP", !.a_channel = ch, !.a_level = lvl,
                                !.thrown = r.thrown, !.ret = r.ret, !.entry = r.entry,
                                !.a_mapData = map, !.lines = r.lines]
      /\ UNCHANGED <<cfgVars, flagVars, m_mutex, m_formatter, tlsVars,
                     m_sinks, sinkMutex, writing, threadVars, scopes, now, m_pInstance>>

(***************************************************************************)
(* SpecEmit: one thread, with default level info, adds sinks, chooses the  *)
(* formatter, enables metadata and adds a key, and logs messages that are  *)
(* not empty with ALOG and the empty message with ALOG_MAP, with and       *)
(* without a map, at info and at debug.                                    *)
(***************************************************************************)
EmitMessages == { <<"m">>, <<"\n">>, <<"m", "\n", "n">> }
EmitMapDatas == { EmptyMap, [k \in {"foo"} |-> 456] }
EmitLevels == { info, debug }
EmitRoom == \A st \in Streams : Len(streams[st]) < MaxLines

NextEmit ==
  \/ call.op \notin {"ALOG", "ALOG_MAP"} /\ \E st \in Streams : AddSinkCall(st)
  \/ \E f \in {StdFormatter, JSONFormatter} : SetFormatterCall(f)
  \/ EnableMetadataCall
  \/ AddMetadataCall("k1", 1)
  \/ EmitRoom /\ \E lvl \in EmitLevels, msg \in EmitMessages, map \in EmitMapDatas :
                    ALOGCall(<<"A">>, lvl, msg, map)
  \/ EmitRoom /\ \E lvl \in EmitLevels, map \in EmitMapDatas :
                    ALOG_MAPCall(<<"A">>, lvl, map)

SpecEmit == InitLogging /\ [][NextEmit]_vars

(***************************************************************************)
(* C1.  For every filter configuration, channel and level other than off,  *)
(* filter(channel, level) returns true if and only if the channel's        *)
(* effective level (its mapped level when the channel is in the map,       *)
(* otherwise the default level) is >= the requested level; a request at    *)
(* exactly the effective level is enabled.                                  *)
(***************************************************************************)
EffectiveLevel(c, ch) ==
  IF ch \in DOMAIN c.filters THEN c.filters[ch] ELSE c.defaultLevel

C1_FilterIffEffectiveLevel ==
  (call.op = "filter" /\ call.a_level # off)
  => /\ ~call.thrown
     /\ call.ret <=> (EffectiveLevel(Config(m_filters, m_defaultLevel), call.a_channel)
                        >= call.a_level)

\* A mapped channel asked at exactly its level, which the default would refuse.
C1_Witness ==
  /\ call.op = "filter"
  /\ call.a_level # off
  /\ call.a_channel \in DOMAIN m_filters
  /\ m_filters[call.a_channel] = call.a_level
  /\ m_defaultLevel < call.a_level
  /\ call.ret

(***************************************************************************)
(* C2.  For every channel and filter configuration, a log call at level    *)
(* off raises at the filter check: no entry is constructed, no line is     *)
(* written to any sink and no registry state changes.                      *)
(***************************************************************************)
C2_LogAtOffRaises ==
  [][\A ch \in Channels, msg \in Messages, map \in MapDatas :
       ALOGCall(ch, off, msg, map)
       => /\ call'.thrown
          /\ ~call'.entry
          /\ streams' = streams
          /\ UNCHANGED <<m_filters, m_defaultLevel, m_doThreadLog, m_doMetadata,
                         m_serviceName, m_mutex, m_sinks, m_formatter, m_indents,
                         m_metadata, sinkMutex>>]_vars

\* A log call at off made with a sink registered and every level enabled.
C2_Witness ==
  /\ call.op = "ALOG"
  /\ call.a_level = off
  /\ call.thrown
  /\ m_sinks # <<>>
  /\ m_defaultLevel = debug4

(***************************************************************************)
(* C3.  In every interleaving of log calls by several threads, and for any *)
(* sequence of addSink calls (a stream may be registered by more than one  *)
(* addSink call), at most one thread at a time is writing to any given     *)
(* output stream.                                                           *)
(***************************************************************************)
C3_StreamWritesExclusive ==
  \A st \in Streams : Cardinality(writing[st]) <= 1

(***************************************************************************)
(* C4.  Every read or write of the shared registry state made by filter,   *)
(* log, getIndent, getMetadata and the mutating operations happens while   *)
(* the calling thread holds the registry mutex: a thread whose next step   *)
(* accesses that state holds m_mutex.                                       *)
(***************************************************************************)
AccessesShared(t) ==
  \/ pc[t] = "filter" /\ ~filterThrows(frame[t].a_level)
  \/ pc[t] \in {"filter_ret", "log", "log_format", "log_sinks", "log_lock",
                "setup_filters", "setup_default", "body"}

C4_AccessesHoldRegistryMutex ==
  \A t \in Threads : AccessesShared(t) => m_mutex = t

(***************************************************************************)
(* C5.  A filter check that runs concurrently with setupFilters decides    *)
(* with the map and the default level of one single configuration: its     *)
(* result is the result under the configuration in force when it was       *)
(* called, under one that came into force before it returned, or under the *)
(* one a setupFilters call in progress at its return was bringing into     *)
(* force.                                                                   *)
(***************************************************************************)
C5_FilterReadsOneConfiguration ==
  \A t \in Threads :
    (pc[t] = "return" /\ frame[t].op = "filter" /\ ~frame[t].thrown)
    => \E c \in frame[t].configs :
         frame[t].ret <=> (EffectiveLevel(c, frame[t].a_channel) >= frame[t].a_level)

(***************************************************************************)
(* C6.  Every line the formatter produces for an entry is written to every *)
(* sink registered at the time of the log call (and one thread's lines     *)
(* reach each sink in the order of its calls).  Stated for a log call at   *)
(* its return: each line of the entry has been written to the stream of    *)
(* each sink that was registered when log was entered.                     *)
(***************************************************************************)
C6_EveryLineToEverySink ==
  \A t \in Threads :
    (pc[t] = "return" /\ frame[t].op = "ALOG" /\ frame[t].ret)
    => \A k \in 1..Len(frame[t].sinksAtCall), i \in 1..Len(frame[t].lines) :
         <<frame[t].sinksAtCall[k].sink, i>> \in frame[t].written

(***************************************************************************)
(* C7.  No thread ever waits for a mutex while it holds one (the registry  *)
(* mutex and the sink mutexes are never nested and the registry lock is    *)
(* never re-entered), and under fair scheduling every call returns.        *)
(***************************************************************************)
Held(t) ==
  (IF m_mutex = t THEN {"m_mutex"} ELSE {}) \cup { i \in MutexIds : sinkMutex[i] = t }

Waiting(t) == pc[t] \in {"lock", "log_lock"}

NoNestedLocks ==
  \A t \in Threads : Cardinality(Held(t)) <= 1 /\ (Waiting(t) => Held(t) = {})

C7_NoNestedLocksEveryCallReturns ==
  /\ []NoNestedLocks
  /\ \A t \in Threads : (pc[t] # "idle") ~> (pc[t] = "idle")

\* A thread waits for the mutex of the sink another thread is writing to.
C7_Witness ==
  \E a, b \in Threads :
    /\ a # b
    /\ pc[a] = "log_lock" /\ pc[b] = "log_write"
    /\ frame[a].sinks[frame[a].k].m = frame[b].m

(***************************************************************************)
(* C8.  As stated: while thread A is inside a write to sink S1, a log call *)
(* of another thread B that still has to write to a different sink S2 (of  *)
(* another stream) can go on without waiting for A to release S1.          *)
(***************************************************************************)
AtSink(t, k) ==
  /\ frame[t].k = k
  /\ k <= Len(m_sinks)
  /\ frame[t].sinks[k] = m_sinks[k]

C8_SlowSinkNeverBlocks ==
  \A a, b \in Threads :
    (/\ a # b
     /\ pc[a] = "log_write"
     /\ pc[b] = "log_lock"
     /\ \E kb \in frame[b].k..Len(frame[b].sinks) :
          frame[b].sinks[kb].sink # frame[a].sink)
    => ENABLED LogLock(b)

(***************************************************************************)
(* C8, amended.  While thread A is inside a write to sink S1, a log call   *)
(* of another thread B whose walk over the sinks is at a different sink S2 *)
(* (of another stream) that no thread is writing to begins its write to S2 *)
(* without waiting for A.  (A thread whose walk is at S1 waits for A.)     *)
(***************************************************************************)
C8_OtherSinkNotBlocked ==
  \A a, b \in Threads : \A ka, kb \in 1..MaxSinks :
    (/\ a # b /\ ka # kb
     /\ pc[a] = "log_write" /\ AtSink(a, ka)
     /\ pc[b] = "log_lock" /\ AtSink(b, kb)
     /\ m_sinks[kb].sink # m_sinks[ka].sink
     /\ \A c \in Threads : ~(pc[c] = "log_write" /\ frame[c].k = kb))
    => ENABLED LogLock(b)

\* Two threads inside their writes to two different sinks at once.
C8_Witness ==
  \E a, b \in Threads :
    /\ a # b
    /\ pc[a] = "log_write" /\ pc[b] = "log_write"
    /\ frame[a].sink # frame[b].sink
    /\ frame[a].k # frame[b].k

(***************************************************************************)
(* C9.  setupFilters raises whenever some comma-separated pair of the spec *)
(* does not consist of exactly two ':'-separated tokens, or some level     *)
(* token (of a pair, or the default-level argument) is not one of the      *)
(* eleven level names: no malformed spec is accepted.  Tokens are counted  *)
(* as the grammar CHANNEL:level(,CHANNEL:level)* counts them: n delimiters *)
(* separate n+1 tokens.                                                     *)
(***************************************************************************)
RECURSIVE Tokens(_, _)
Tokens(s, delim) ==
  IF \E k \in 1..Len(s) : s[k] = delim
  THEN LET k == CHOOSE i \in 1..Len(s) :
                  s[i] = delim /\ \A j \in 1..(i-1) : s[j] # delim
       IN  <<SubSeq(s, 1, k-1)>> \o Tokens(SubSeq(s, k+1, Len(s)), delim)
  ELSE <<s>>

IsLevelName(s) == \E l \in ELogLevels : LevelToHumanString(l) = s

PairWellFormed(p) ==
  LET toks == Tokens(p, ":") IN Len(toks) = 2 /\ IsLevelName(toks[2])

FilterSpecWellFormed(s) ==
  s = <<>> \/ LET pairs == Tokens(s, ",")
              IN  \A i \in 1..Len(pairs) : PairWellFormed(pairs[i])

C9_MalformedSpecRaises ==
  (call.op = "setupFilters"
     /\ (~FilterSpecWellFormed(call.a_filterSpec)
           \/ ~IsLevelName(call.a_defaultLevelSpec)))
  => call.thrown

(***************************************************************************)
(* C10.  Whenever a setupFilters call raises, the filter map and the       *)
(* default level are the same after the call as before it.                 *)
(***************************************************************************)
C10_FailedSetupKeepsConfig ==
  (call.op = "setupFilters" /\ call.thrown)
  => (m_filters = call.preFilters /\ m_defaultLevel = call.preDefaultLevel)

(***************************************************************************)
(* C11.  After a successful setupFilters(spec, default) on a spec of the   *)
(* grammar, the filter map holds exactly the channels named in spec, each  *)
(* with a level stated for it, and the default level is the parsed         *)
(* default: nothing of the earlier configuration survives.                 *)
(***************************************************************************)
SpecPairs(s) ==
  IF s = <<>> THEN {}
  ELSE LET pairs == Tokens(s, ",")
       IN  { <<Tokens(pairs[i], ":")[1], ParseLevel(Tokens(pairs[i], ":")[2])>> :
               i \in 1..Len(pairs) }

C11_SetupReplacesConfiguration ==
  (/\ call.op = "setupFilters" /\ ~call.thrown
   /\ FilterSpecWellFormed(call.a_filterSpec)
   /\ IsLevelName(call.a_defaultLevelSpec))
  => /\ DOMAIN m_filters = { pr[1] : pr \in SpecPairs(call.a_filterSpec) }
     /\ \A c \in DOMAIN m_filters : <<c, m_filters[c]>> \in SpecPairs(call.a_filterSpec)
     /\ m_defaultLevel = ParseLevel(call.a_defaultLevelSpec)

\* The same, for the specs that name at least one channel.
C11_NonEmptySpecReplacesConfiguration ==
  call.a_filterSpec # <<>> => C11_SetupReplacesConfiguration

(***************************************************************************)
(* C12.  After setupFilters("", d) the filter map holds no per-channel     *)
(* override: for every channel name, the empty one included, and every     *)
(* level l other than off, filter(channel, l) is true if and only if       *)
(* d >= l.                                                                  *)
(***************************************************************************)
C12_EmptySpecNoOverride ==
  (call.op = "setupFilters" /\ call.a_filterSpec = <<>> /\ ~call.thrown)
  => /\ DOMAIN m_filters = {}
     /\ \A ch \in Channels, l \in ELogLevels \ {off} :
          filter(m_filters, m_defaultLevel, ch, l)
            <=> (ParseLevel(call.a_defaultLevelSpec) >= l)

(***************************************************************************)
(* C13.  Indentation is a per-thread stack.  While a thread has N nested   *)
(* indent scopes open and its depth before the first was d, its depth is   *)
(* d+N and every line of an entry it logs shows d+N (so each line logged   *)
(* in between shows the scopes open at that moment); when a scope has      *)
(* exited the depth is what it was before that scope was entered, hence d  *)
(* after all N have exited.                                                 *)
(***************************************************************************)
LineIndent(line) ==
  IF "json" \in DOMAIN line THEN line.json["num_indent"] ELSE line.header.nIndent

PlainScopes(sc) == \A i \in 1..Len(sc) : sc[i].kind = "CLogScopedIndent" /\ ~sc[i].conditional

C13_IndentIsStack ==
  LET sc == scopes[MainThread]
      depth == getIndent(m_indents, MainThread)
  IN  /\ (sc # <<>> /\ PlainScopes(sc)) => depth = sc[1].depthAtEntry + Len(sc)
      /\ (call.op = "ALOG" /\ call.entry)
           => \A i \in 1..Len(call.lines) : LineIndent(call.lines[i]) = depth
      /\ (call.op = "scopeExit" /\ ~call.guard.conditional)
           => depth = call.guard.depthAtEntry

\* A line logged at depth 3: one addIndent and two nested scopes.
C13_Witness ==
  /\ call.op = "ALOG" /\ call.entry
  /\ Len(scopes[MainThread]) = 2 /\ PlainScopes(scopes[MainThread])
  /\ scopes[MainThread][1].depthAtEntry = 1
  /\ LineIndent(call.lines[1]) = 3

(***************************************************************************)
(* C14.  A conditional indent scope decides once, at construction, whether *)
(* its channel/level is enabled; it decrements the depth on exit exactly   *)
(* when it incremented it on entry, so whatever the filters became while   *)
(* it was open, the depth after exit equals the depth before entry.        *)
(***************************************************************************)
C14_ConditionalIndentSymmetric ==
  LET sc == scopes[MainThread]
      depth == getIndent(m_indents, MainThread)
  IN  /\ (call.op = "scopeExit" /\ call.guard.conditional)
           => depth = call.guard.depthAtEntry
      /\ (sc # <<>> /\ sc[Len(sc)].conditional)
           => depth = sc[Len(sc)].depthAtEntry + (IF sc[Len(sc)].m_enabled THEN 1 ELSE 0)

\* A conditional scope exits after the filters changed its answer, both ways.
C14_Witness ==
  /\ call.op = "scopeExit" /\ call.guard.conditional
  /\ call.guard.m_enabled
  /\ ~filter(m_filters, m_defaultLevel, call.guard.a_channelName, call.guard.a_level)
  /\ scopes[MainThread] # <<>>
  /\ LET g == scopes[MainThread][1]
     IN  /\ g.conditional /\ ~g.m_enabled
         /\ filter(m_filters, m_defaultLevel, g.a_channelName, g.a_level)

(***************************************************************************)
(* C15.  Metadata scopes nest (metadata enabled): an entry logged while    *)
(* scopes are open carries the keys of every open scope; when a scope has  *)
(* exited the thread's metadata is exactly what it was just before that    *)
(* scope was entered (after the inner one: the outer keys with the outer   *)
(* values; after the outermost: nothing), for any keys the scopes use.     *)
(***************************************************************************)
FormatterKeys ==
  {"channel", "level_str", "timestamp", "num_indent", "message", "thread_id",
   "service_name"}

\* The map of the entry, read back from the lines the formatter made of it.
EntryMap(lines) ==
  IF lines = <<>> THEN EmptyMap
  ELSE IF "json" \in DOMAIN lines[1]
       THEN [k \in (DOMAIN lines[1].json) \ FormatterKeys |-> lines[1].json[k]]
       ELSE LET idx == { i \in 1..Len(lines) : "key" \in DOMAIN lines[i] }
            IN  [k \in { lines[i].key : i \in idx } |->
                   lines[CHOOSE i \in idx : lines[i].key = k].value]

KeysOf(g) == { g.m_keys[j] : j \in 1..Len(g.m_keys) }

EntryCarriesOpenScopes ==
  (call.op = "ALOG" /\ call.entry /\ call.lines # <<>>)
  => LET map == EntryMap(call.lines)
         sc == scopes[MainThread]
     IN  \A i \in 1..Len(sc) :
           (sc[i].kind = "CLogScopedMetadata" /\ sc[i].m_enabled)
           => /\ "metadata" \in DOMAIN map
              /\ KeysOf(sc[i]) \subseteq DOMAIN map["metadata"]

C15_MetadataScopesNest ==
  /\ EntryCarriesOpenScopes
  /\ (call.op = "scopeExit" /\ call.guard.kind = "CLogScopedMetadata"
        /\ call.guard.m_enabled)
      => getMetadata(m_metadata, MainThread) = call.guard.metadataAtEntry

\* SpecNestFresh: as SpecNest, with every scope entered on keys that are not
\* in the thread's metadata at that time.
Fresh(keys) == keys \cap DOMAIN getMetadata(m_metadata, MainThread) = {}

NextNestFresh ==
  \/ EnableMetadataCall
  \/ \E k \in {"k1", "k2"}, v \in MetadataValues :
       Fresh({k}) /\ ScopedMetadataEnterKV(k, v)
  \/ \E m \in MetadataMaps : Fresh(DOMAIN m) /\ ScopedMetadataEnterMap(m)
  \/ ScopedMetadataExit
  \/ \E f \in {StdFormatter, JSONFormatter} : SetFormatterCall(f)
  \/ \E msg \in MetadataMessages, map \in MetadataMapDatas :
       ALOGCall(<<"A">>, info, msg, map)

SpecNestFresh == InitMetadata /\ [][NextNestFresh]_vars

(***************************************************************************)
(* C16.  When a metadata scope guard exits, every key it added on entry is *)
(* removed from the calling thread's metadata, whatever registry           *)
(* operations (disableMetadata and enableMetadata included) ran while the  *)
(* scope was open: no key a scope added is still present after that scope  *)
(* has exited.                                                              *)
(***************************************************************************)
C16_ExitRemovesAddedKeys ==
  (call.op = "scopeExit" /\ call.guard.kind = "CLogScopedMetadata"
     /\ call.guard.m_enabled)
  => KeysOf(call.guard) \cap DOMAIN getMetadata(m_metadata, MainThread) = {}

\* The same, for the exits that happen while the metadata flag is enabled.
C16_ExitWhileEnabledRemovesKeys ==
  m_doMetadata => C16_ExitRemovesAddedKeys

(***************************************************************************)
(* C17.  A log call adds to the entry's map a `metadata` key holding the   *)
(* calling thread's current metadata exactly when the metadata flag is     *)
(* enabled and that thread's metadata is non-empty; otherwise the entry's  *)
(* map is the caller-supplied map unchanged.                                *)
(***************************************************************************)
C17_MetadataAttachedWhenEnabled ==
  (call.op = "ALOG" /\ call.entry /\ call.lines # <<>>)
  => EntryMap(call.lines) =
       IF m_doMetadata /\ getMetadata(m_metadata, MainThread) # EmptyMap
       THEN MapSet(call.a_mapData, "metadata", getMetadata(m_metadata, MainThread))
       ELSE call.a_mapData

\* The flag is enabled and the thread has metadata: the entry carries it next
\* to the key the caller supplied.
C17_Witness ==
  /\ call.op = "ALOG" /\ call.entry
  /\ m_doMetadata
  /\ DOMAIN getMetadata(m_metadata, MainThread) = {"k1", "k2"}
  /\ "foo" \in DOMAIN call.a_mapData
  /\ DOMAIN EntryMap(call.lines) = {"foo", "metadata"}
  /\ EntryMap(call.lines)["metadata"] = m_metadata[MainThread]

(***************************************************************************)
(* C18.  While the metadata flag is disabled, addMetadata, removeMetadata  *)
(* and clearMetadata leave the per-thread metadata map unchanged.          *)
(***************************************************************************)
C18_DisabledMetadataCallsNoOp ==
  (call.op \in {"addMetadata", "removeMetadata", "clearMetadata"}
     /\ ~call.preDoMetadata)
  => m_metadata = call.preMetadata

\* clearMetadata called with the flag disabled by a thread that has metadata.
C18_Witness ==
  /\ call.op = "clearMetadata"
  /\ ~call.preDoMetadata
  /\ getMetadata(call.preMetadata, MainThread) # EmptyMap
  /\ m_metadata = call.preMetadata

(***************************************************************************)
(* C20.  After reset() the registry is in the unconfigured state whatever  *)
(* its state was before: filter map empty, default level off, sink list    *)
(* empty, thread-ID flag disabled, metadata flag disabled, service name    *)
(* empty, indent map empty, and the formatter is the plain-text one.       *)
(***************************************************************************)
ResetButMetadataFlag ==
  /\ m_filters = NoFilters
  /\ m_defaultLevel = off
  /\ m_sinks = <<>>
  /\ ~m_doThreadLog
  /\ m_serviceName = <<>>
  /\ DOMAIN m_indents = {}
  /\ m_formatter = StdFormatter

C20_ResetRestoresUnconfigured ==
  call.op = "reset" => (ResetButMetadataFlag /\ ~m_doMetadata)

\* The same, but for the metadata flag.
C20_ResetRestoresAllButMetadataFlag ==
  call.op = "reset" => ResetButMetadataFlag

(***************************************************************************)
(* C19.  addIndent, removeIndent, addMetadata, removeMetadata and          *)
(* clearMetadata performed by one thread never change the indent depth or  *)
(* the metadata another thread observes, and an entry logged by thread B   *)
(* never carries an indent or a metadata key that only thread A added:     *)
(* a step of thread A's operation leaves the entries of every other thread *)
(* as they are, and what a thread reads (getIndent, getMetadata, the       *)
(* construction of a log entry) is its own entry as it is at that time.    *)
(***************************************************************************)
OthersEntriesKept ==
  \A a, b \in Threads :
    (a # b /\ (AddIndentBody(a) \/ RemoveIndentBody(a) \/ MetadataBody(a)))
    => /\ getIndent(m_indents', b) = getIndent(m_indents, b)
       /\ getMetadata(m_metadata', b) = getMetadata(m_metadata, b)

ReadsOwnEntry ==
  \A b \in Threads :
    /\ GetIndent(b) => frame'[b].depth = getIndent(m_indents, b)
    /\ GetMetadata(b) => frame'[b].metadata = getMetadata(m_metadata, b)
    /\ (LogEntry(b) /\ m_formatter # NullFormatter)
         => /\ frame'[b].entry.nIndent = getIndent(m_indents, b)
            /\ frame'[b].entry.mapData =
                 logMapData(EmptyMap, m_doMetadata, m_metadata, b)

C19_ThreadStateIsolated == [][OthersEntriesKept /\ ReadsOwnEntry]_vars

\* The part about the maps themselves: no operation touches another thread's entry.
C19_OthersEntriesKept == [][OthersEntriesKept]_vars

(***************************************************************************)
(* C21.  A block scope that is enabled when it is entered and when it is   *)
(* left (so also one enabled throughout) puts exactly one entry            *)
(* 'Start: <message>' into the sink when it is entered and exactly one     *)
(* entry 'End: <message>' when it is left: what the sink received since    *)
(* the scope was entered is the Start entry, then everything the thread    *)
(* logged inside the scope, then the End entry, and no other line in       *)
(* between carries either message unless a scope with the same message was *)
(* opened inside.                                                           *)
(***************************************************************************)
\* The message a formatted line carries.
LineMessage(line) ==
  IF "json" \in DOMAIN line
  THEN (IF "message" \in DOMAIN line.json THEN line.json["message"] ELSE <<>>)
  ELSE IF "text" \in DOMAIN line THEN line.text ELSE <<>>

LinesWith(seq, a_msg) == { i \in 1..Len(seq) : LineMessage(seq[i]) = a_msg }

C21_BlockScopeBrackets ==
  (call.op = "scopeExit" /\ call.kind = "CLogScope"
     /\ call.guard.enabledAtEntry /\ call.ret)
  => LET g == call.guard
         pre == g.streamsAtEntry["s1"]
         all == streams["s1"]
         a == Len(g.linesAtEntry)
         e == Len(call.lines)
         since == SubSeq(all, Len(pre) + 1, Len(all))
     IN  /\ a >= 1 /\ e >= 1
         /\ Len(since) >= a + e
         /\ SubSeq(all, 1, Len(pre)) = pre
         /\ SubSeq(since, 1, a) = g.linesAtEntry
         /\ LineMessage(since[1]) = StartPrefix \o g.m_msg
         /\ SubSeq(since, Len(since) - e + 1, Len(since)) = call.lines
         /\ LineMessage(since[Len(since) - e + 1]) = EndPrefix \o g.m_msg
         /\ SubSeq(since, a + 1, Len(since) - e)
              = SubSeq(call.preStreams["s1"], Len(pre) + a + 1,
                       Len(call.preStreams["s1"]))
         /\ g.m_msg \notin g.inner
            => /\ LinesWith(since, StartPrefix \o g.m_msg) = {1}
               /\ LinesWith(since, EndPrefix \o g.m_msg) = {Len(since) - e + 1}

\* A scope with a shared map was left after a line was logged inside it and
\* the sink holds Start, that line and End.
C21_Witness ==
  /\ call.op = "scopeExit" /\ call.kind = "CLogScope"
  /\ call.guard.enabledAtEntry /\ call.ret
  /\ call.guard.m_mapDataPtr # NullMapPtr
  /\ Len(streams["s1"]) > Len(call.guard.streamsAtEntry["s1"])
                            + Len(call.guard.linesAtEntry) + Len(call.lines)

(***************************************************************************)
(* C23.  A block scope asks the filter when it is entered and again when   *)
(* it is left: the sink receives 'Start: <message>' exactly when the       *)
(* scope's channel and level are enabled at entry, and 'End: <message>'    *)
(* exactly when they are enabled at exit, whatever the other answer was.   *)
(***************************************************************************)
EnabledNow(ch, lvl) ==
  lvl # off /\ EffectiveLevel(Config(m_filters, m_defaultLevel), ch) >= lvl

Emitted(prefix, a_msg) ==
  /\ call.lines # <<>>
  /\ streams["s1"] = call.preStreams["s1"] \o call.lines
  /\ LineMessage(call.lines[1]) = prefix \o a_msg

C23_BlockScopeFiltersTwice ==
  /\ (call.op = "scopeEnter" /\ call.kind = "CLogScope")
     => IF EnabledNow(call.a_channel, call.a_level)
        THEN Emitted(StartPrefix, call.a_msg)
        ELSE streams = call.preStreams
  /\ (call.op = "scopeExit" /\ call.kind = "CLogScope")
     => IF EnabledNow(call.guard.m_channelName, call.guard.m_level)
        THEN Emitted(EndPrefix, call.guard.m_msg)
        ELSE streams = call.preStreams

\* A scope entered while its channel was disabled has just emitted End.
C23_Witness ==
  /\ call.op = "scopeExit" /\ call.kind = "CLogScope"
  /\ ~call.guard.enabledAtEntry /\ call.guard.linesAtEntry = <<>>
  /\ call.lines # <<>>
  /\ streams["s1"] # call.preStreams["s1"]

(***************************************************************************)
(* C22.  The map a block scope or a timer scope shares with its caller is  *)
(* read when an entry is emitted: the Start entry carries the map as it    *)
(* was when the scope was entered, the End entry the map as it is when the *)
(* scope is left, with the keys set in between, and the terminal entry of  *)
(* a timer the map as it is when the timer is left, with duration_ms       *)
(* added.                                                                   *)
(***************************************************************************)
C22_ScopeMapReadAtEmission ==
  /\ (call.op = "scopeEnter" /\ call.kind = "CLogScope" /\ call.entry)
     => LET sc == scopes[MainThread]
        IN  EntryMap(call.lines) = Deref(sc[Len(sc)].m_mapDataPtr)
  /\ (call.op = "scopeExit" /\ call.kind = "CLogScope")
     => /\ call.guard.enabledAtEntry
           => EntryMap(call.guard.linesAtEntry) = call.guard.mapAtEntry
        /\ call.entry => EntryMap(call.lines) = Deref(call.guard.m_mapDataPtr)
  /\ (call.op = "scopeExit" /\ call.kind = "CLogScopedTimer" /\ call.entry)
     => LET map == EntryMap(call.lines)
        IN  /\ "duration_ms" \in DOMAIN map
            /\ [k \in DOMAIN map \ {"duration_ms"} |-> map[k]]
                 = Deref(call.guard.m_mapDataPtr)

\* A block scope has emitted Start with an empty map and End with foo in it.
C22_Witness ==
  /\ call.op = "scopeExit" /\ call.kind = "CLogScope"
  /\ call.guard.enabledAtEntry /\ call.entry
  /\ call.guard.mapAtEntry = EmptyMap
  /\ "foo" \in DOMAIN EntryMap(call.lines)
  /\ EntryMap(call.guard.linesAtEntry) = EmptyMap

(***************************************************************************)
(* C24.  The terminal entry of a scoped timer has a map with the key       *)
(* duration_ms and a number >= 0 as its value, and each call of            *)
(* getCurrentDurationNS on a live timer returns at least what the call     *)
(* before it on the same timer returned.                                    *)
(***************************************************************************)
C24_DurationNonNegativeMonotone ==
  /\ (call.op = "scopeExit" /\ call.kind = "CLogScopedTimer" /\ call.entry)
     => LET map == EntryMap(call.lines)
        IN  "duration_ms" \in DOMAIN map /\ map["duration_ms"] \in Nat
  /\ (call.op = "getCurrentDurationNS" /\ call.guard.queried)
     => ULongLeq(call.guard.lastNS, call.val)

\* The same, for a clock that is never set back (SpecTimerSteady).
C24_OnSteadyClock ==
  /\ (call.op = "scopeExit" /\ call.kind = "CLogScopedTimer" /\ call.entry)
     => EntryMap(call.lines)["duration_ms"] >= 0
  /\ (call.op = "getCurrentDurationNS" /\ call.guard.queried)
     => call.guard.lastNS <= call.val /\ call.guard.lastNS >= 0

(***************************************************************************)
(* C25.  For every elapsed time of at least 1 ns the number in the         *)
(* terminal message of a timer is >= 1, and its unit is s from             *)
(* 100,000,000 ns on, ms from 1,000,000 ns on, us from 1,000 ns on and ns  *)
(* below that.                                                              *)
(***************************************************************************)
\* The number and the unit at the end of the message of a terminal entry.
ShownNumber(lines) ==
  LET m == LineMessage(lines[1])
  IN  CHOOSE n \in 0..999 : ToString(n) = m[Len(m) - 1]

ShownUnit(lines) ==
  LET m == LineMessage(lines[1]) IN m[Len(m)]

UnitLadder(ns) ==
  IF ns >= 100000000 THEN "s"
  ELSE IF ns >= 1000000 THEN "ms"
  ELSE IF ns >= 1000 THEN "us"
  ELSE "ns"

C25_CoarsestUnitAtLeastOne ==
  (call.op = "scopeExit" /\ call.kind = "CLogScopedTimer" /\ call.entry
     /\ call.val >= 1)
  => /\ ShownNumber(call.lines) >= 1
     /\ ShownUnit(call.lines) = UnitLadder(call.val)

\* What holds: outside of [99,999,996 ns, 1 s) the number is >= 1 and the unit
\* is the one of the ladder.
C25_AtLeastOneOutsideTenthToSecond ==
  (call.op = "scopeExit" /\ call.kind = "CLogScopedTimer" /\ call.entry
     /\ call.val >= 1 /\ ~(call.val >= 99999996 /\ call.val < 1000000000))
  => /\ ShownNumber(call.lines) >= 1
     /\ ShownUnit(call.lines) = UnitLadder(call.val)

(***************************************************************************)
(* C26.  Constructing a scope guard never raises an error, for every       *)
(* channel, every level including off, and every registry configuration.   *)
(***************************************************************************)
\* C26 as stated: no guard constructor throws.
C26_GuardConstructionNeverRaises ==
  call.op = "scopeEnter" => ~call.thrown

\* The guards whose constructor passes its level to filter.
FiltersAtConstruction ==
  \/ call.kind \in {"CLogScope", "CLogScopedTimer"}
  \/ call.kind = "CLogScopedIndent" /\ call.conditional

\* C26, amended: the constructor of a block scope, a timer scope or a
\* conditional indent scope throws exactly when its level is off; the
\* constructor of a metadata scope or an unconditional indent scope never
\* throws.  No other configuration of the registry makes a constructor throw.
C26_GuardConstructionRaisesExactlyAtOff ==
  call.op = "scopeEnter" =>
    (call.thrown <=> (FiltersAtConstruction /\ call.a_level = off))

\* A block scope was constructed at level off on a channel whose filter is
\* above off, with a formatter set, and it threw; no guard came to exist.
C26_Witness ==
  /\ call.op = "scopeEnter"
  /\ call.kind = "CLogScope"
  /\ call.a_level = off
  /\ call.thrown
  /\ m_formatter # NullFormatter
  /\ scopes[MainThread] = <<>>

(***************************************************************************)
(* C27.  A line logged with ALOG_THREAD / ALOG_THREADthis on an enabled    *)
(* channel/level includes the calling thread's id regardless of the global *)
(* thread-ID setting, in every interleaving with other threads that        *)
(* concurrently execute ALOG_THREAD, enableThreadID or disableThreadID.    *)
(***************************************************************************)
\* The thread id a formatted line shows, NoThread when it shows none.
LineThreadId(line) ==
  IF "json" \in DOMAIN line
  THEN (IF "thread_id" \in DOMAIN line.json THEN line.json["thread_id"] ELSE NoThread)
  ELSE line.header.threadId

\* C27: every line that a thread's ALOG_THREAD has built shows that thread's id.
C27_ThreadLineHasThreadId ==
  \A t \in Threads :
    frame[t].macro = "ALOG_THREAD" =>
      \A i \in 1..Len(frame[t].lines) : LineThreadId(frame[t].lines[i]) = t

(***************************************************************************)
(* C28.  JSON output round-trips: parsing the single line produced by the  *)
(* JSON formatter yields an object whose channel, level_str, timestamp and *)
(* num_indent equal the entry's values and in which every caller-supplied  *)
(* key is present with a value equal to the original.                      *)
(***************************************************************************)
JSONFormatted == call.op = "formatEntry" /\ m_formatter = JSONFormatter

\* The keys CJSONLogFormatter::formatEntry assigns for an entry.
SetByFormatter(a_entry, threadIDEnabled) ==
  {"channel", "level_str", "timestamp", "num_indent"}
    \cup (IF a_entry.message # <<>> THEN {"message"} ELSE {})
    \cup (IF threadIDEnabled THEN {"thread_id"} ELSE {})
    \cup (IF a_entry.serviceName # <<>> THEN {"service_name"} ELSE {})

\* The parsed line has the entry's four fields, and the keys of the set with
\* the values the entry's map gives them.
RoundTrips(a_entry, a_line, keys) ==
  LET j == parse(a_line)
  IN  /\ {"channel", "level_str", "timestamp", "num_indent"} \subseteq DOMAIN j
      /\ j["channel"] = a_entry.channel
      /\ j["level_str"] = LevelToHumanString(a_entry.level)
      /\ j["timestamp"] = AsParsed("timestamp", a_entry.timestamp)
      /\ j["num_indent"] = a_entry.nIndent
      /\ \A key \in keys :
           key \in DOMAIN j /\ j[key] = AsParsed(key, a_entry.mapData[key])

\* C28 as stated: every key of the caller's map comes back with its value.
C28_JSONRoundTripsEveryKey ==
  JSONFormatted =>
    /\ Len(call.out) = 1
    /\ RoundTrips(call.a_entry, call.out[1], DOMAIN call.a_entry.mapData)

\* C28, amended: parsing the single line gives the entry's channel, level_str,
\* timestamp and num_indent, and every key of the caller's map that the
\* formatter does not set itself for this entry, with the caller's value.
C28_JSONRoundTripsOtherKeys ==
  JSONFormatted =>
    /\ Len(call.out) = 1
    /\ RoundTrips(call.a_entry, call.out[1],
                  (DOMAIN call.a_entry.mapData)
                    \ SetByFormatter(call.a_entry, m_doThreadLog))

\* An entry whose message has a quote and a backslash and whose map has a
\* number and a nested object was formatted, and both came back.
C28_Witness ==
  /\ JSONFormatted
  /\ call.a_entry.message = <<"\"", "q", "\\">>
  /\ DOMAIN call.a_entry.mapData = {"foo", "metadata"}
  /\ parse(call.out[1])["foo"] = 0 - 3
  /\ parse(call.out[1])["metadata"] = MapSet(EmptyMap, "k1", 1)
  /\ parse(call.out[1])["message"] = <<"\"", "q", "\\">>

(***************************************************************************)
(* C29.  The JSON formatter returns exactly one line per entry, whose      *)
(* object always has the keys channel, level_str, timestamp and            *)
(* num_indent, has key message if and only if the message is non-empty,    *)
(* key thread_id if and only if the thread-ID flag is enabled, and key     *)
(* service_name if and only if the service name is non-empty.              *)
(***************************************************************************)
\* The text is one line: its only newline is its last character.
OneLine(a_line) ==
  /\ a_line # <<>>
  /\ \A i \in 1..Len(a_line) : (a_line[i] = "\n") <=> (i = Len(a_line))

\* C29 as stated.
C29_JSONKeysIffSet ==
  JSONFormatted =>
    /\ Len(call.out) = 1
    /\ OneLine(call.out[1])
    /\ LET j == parse(call.out[1])
       IN  /\ {"channel", "level_str", "timestamp", "num_indent"} \subseteq DOMAIN j
           /\ ("message" \in DOMAIN j) <=> (call.a_entry.message # <<>>)
           /\ ("thread_id" \in DOMAIN j) <=> m_doThreadLog
           /\ ("service_name" \in DOMAIN j) <=> (call.a_entry.serviceName # <<>>)

\* C29, amended: exactly one line, whose object always has the keys channel,
\* level_str, timestamp and num_indent, and has key message if and only if the
\* message is non-empty or the entry's map has a key message, key thread_id
\* if and only if the flag is enabled or the map has a key thread_id, key
\* service_name if and only if the service name is non-empty or the map has
\* a key service_name.
C29_JSONKeysIffSetOrInMap ==
  JSONFormatted =>
    /\ Len(call.out) = 1
    /\ OneLine(call.out[1])
    /\ LET j == parse(call.out[1])
           map == call.a_entry.mapData
       IN  /\ {"channel", "level_str", "timestamp", "num_indent"} \subseteq DOMAIN j
           /\ ("message" \in DOMAIN j)
                <=> (call.a_entry.message # <<>> \/ "message" \in DOMAIN map)
           /\ ("thread_id" \in DOMAIN j)
                <=> (m_doThreadLog \/ "thread_id" \in DOMAIN map)
           /\ ("service_name" \in DOMAIN j)
                <=> (call.a_entry.serviceName # <<>> \/ "service_name" \in DOMAIN map)

\* An entry with an empty message and a map without the key message was
\* formatted with the flag off and a service name set: one line, with
\* service_name and without message and thread_id.
C29_Witness ==
  /\ JSONFormatted
  /\ call.a_entry.message = <<>>
  /\ call.a_entry.serviceName # <<>>
  /\ ~m_doThreadLog
  /\ DOMAIN call.a_entry.mapData = {"foo"}
  /\ DOMAIN parse(call.out[1]) =
       {"channel", "level_str", "timestamp", "num_indent", "service_name", "foo"}

(***************************************************************************)
(* C30.  The plain-text formatter returns, for an entry with message m and *)
(* map M, exactly one output line per segment obtained by splitting m on   *)
(* newlines, followed by exactly one output string per top-level key of M, *)
(* every one of them beginning with the same header.                       *)
(***************************************************************************)
StdFormatted == call.op = "formatEntry" /\ m_formatter = StdFormatter

\* The lines of a text: the runs of characters that newlines end or
\* separate; a newline at the end of the text ends its last line.
LinesOf(m) ==
  IF m = <<>> THEN <<>>
  ELSE IF m[Len(m)] = "\n" THEN Tokens(SubSeq(m, 1, Len(m) - 1), "\n")
  ELSE Tokens(m, "\n")

\* C30: one line per line of the message, in order, then one string per
\* top-level key of the map, each key once, all with one header.
C30_StdLinePerSegmentAndKey ==
  StdFormatted =>
    LET m == call.a_entry.message
        M == call.a_entry.mapData
        n == Len(LinesOf(m))
        out == call.lines
    IN  /\ Len(out) = n + Cardinality(DOMAIN M)
        /\ \A i \in 1..n : "text" \in DOMAIN out[i] /\ out[i].text = LinesOf(m)[i]
        /\ \A i \in (n + 1)..Len(out) : "key" \in DOMAIN out[i] /\ out[i].key \in DOMAIN M
        /\ \A i, k \in (n + 1)..Len(out) : out[i].key = out[k].key => i = k
        /\ \A i, k \in 1..Len(out) : out[i].header = out[k].header

\* A message of two lines with an empty line between them and a map of two
\* keys was formatted: three lines and two strings.
C30_Witness ==
  /\ StdFormatted
  /\ call.a_entry.message = <<"a", "\n", "\n", "b">>
  /\ DOMAIN call.a_entry.mapData = {"foo", "metadata"}
  /\ Len(call.lines) = 5
  /\ call.lines[2].text = <<>>
  /\ call.lines[5].key = "metadata"

(***************************************************************************)
(* C31.  In every reachable state, every entry of the per-thread indent    *)
(* map has a value of at least 1: a thread's entry is removed when its     *)
(* depth returns to zero, and a removeIndent by a thread that has no entry *)
(* changes nothing, so a depth never goes below zero.                      *)
(***************************************************************************)
EntriesAtLeastOne == \A tid \in DOMAIN m_indents : m_indents[tid] >= 1

\* A removeIndent call of a thread at depth 1 removes its entry, one at depth
\* 0 leaves the map as it is, and one at a greater depth takes one off.
RemoveIndentStep ==
  call'.op = "removeIndent" /\ call' # call =>
    LET d == getIndent(m_indents, MainThread)
    IN  /\ call'.val = d
        /\ d = 0 => m_indents' = m_indents
        /\ d = 1 => MainThread \notin DOMAIN m_indents'
        /\ d > 1 => getIndent(m_indents', MainThread) = d - 1

\* C31: every entry of m_indents is at least 1 in every reachable state, and
\* removeIndent behaves as above.
C31_IndentEntriesAtLeastOne == []EntriesAtLeastOne /\ [][RemoveIndentStep]_vars

\* removeIndent was called at depth 1 inside an open scope, and the entry is
\* gone.
C31_Witness ==
  /\ call.op = "removeIndent"
  /\ call.val = 1
  /\ scopes[MainThread] # <<>>
  /\ MainThread \notin DOMAIN m_indents

(***************************************************************************)
(* C32.  In every reachable state, every entry of the per-thread metadata  *)
(* map is a non-empty key/value map: removing a thread's last key, or      *)
(* clearMetadata, removes that thread's entry from the outer map.          *)
(***************************************************************************)
EntriesNonEmpty == \A tid \in DOMAIN m_metadata : DOMAIN m_metadata[tid] # {}

\* A removeMetadata call that takes the thread's last key away and a
\* clearMetadata call, made while metadata is enabled (a disabled call does
\* nothing, see C18), leave the thread without an entry.
RemovalErasesEntry ==
  /\ call.op = "removeMetadata" /\ call.preDoMetadata
       /\ MainThread \in DOMAIN call.preMetadata
       /\ DOMAIN call.preMetadata[MainThread] = {call.a_key}
       => MainThread \notin DOMAIN m_metadata
  /\ call.op = "clearMetadata" /\ call.preDoMetadata
       => MainThread \notin DOMAIN m_metadata

\* C32: every entry of m_metadata has at least one key in every reachable
\* state, and the removals above take the entry out of the map.
C32_MetadataEntriesNonEmpty == EntriesNonEmpty /\ RemovalErasesEntry

\* removeMetadata took away the only key of the thread while a scope was
\* open, and the thread has no entry.
C32_Witness ==
  /\ call.op = "removeMetadata"
  /\ call.preDoMetadata
  /\ MainThread \in DOMAIN call.preMetadata
  /\ DOMAIN call.preMetadata[MainThread] = {call.a_key}
  /\ scopes[MainThread] # <<>>
  /\ MainThread \notin DOMAIN m_metadata

(***************************************************************************)
(* C33.  Whenever a scoped timer emits its terminal entry, the reported    *)
(* duration (message suffix and duration_ms) is the time elapsed between   *)
(* the timer's construction and its destruction, and getCurrentDurationNS  *)
(* returns the time elapsed since construction; this holds for every       *)
(* filter configuration at construction time, including when the timer's   *)
(* channel/level was disabled at construction and is enabled at            *)
(* destruction.                                                             *)
(***************************************************************************)
\* The time that has passed since the constructor of guard g ran.
Elapsed(g) == now - g.constructedAt

\* The terminal entry of the last call reports the elapsed time e: in
\* duration_ms, and in the number and the unit at the end of the message.
ReportsElapsed(g, lines, e) ==
  /\ "duration_ms" \in DOMAIN EntryMap(lines)
  /\ EntryMap(lines)["duration_ms"] = duration_cast(e, 1000000)
  /\ LineMessage(lines[1]) = g.m_msg \o <<ToString(TimerMessage(e).val), TimerMessage(e).suffix>>

\* C33: the terminal entry reports the time elapsed since construction, and
\* getCurrentDurationNS returns it, however the filters stood at construction.
C33_TimerReportsElapsed ==
  /\ (call.op = "scopeExit" /\ call.kind = "CLogScopedTimer" /\ call.entry)
     => ReportsElapsed(call.guard, call.lines, Elapsed(call.guard))
  /\ call.op = "getCurrentDurationNS" => call.val = Elapsed(call.guard)

\* What holds: the same for the timers whose channel/level was enabled at
\* construction.
C33_WhenEnabledAtConstruction ==
  /\ (call.op = "scopeExit" /\ call.kind = "CLogScopedTimer" /\ call.entry
        /\ call.guard.enabledAtEntry)
     => ReportsElapsed(call.guard, call.lines, Elapsed(call.guard))
  /\ (call.op = "getCurrentDurationNS" /\ call.guard.enabledAtEntry)
     => call.val = Elapsed(call.guard)

(***************************************************************************)
(* C34.  For ALOG_FUNCTION / ALOG_DETAIL_FUNCTION on an enabled channel    *)
(* and level, called at indent depth d: the lines of the Start entry and   *)
(* of the End entry are at depth d, every line the thread logs in the      *)
(* function's body is at depth d + 1, and once the function has returned   *)
(* the thread's depth is d again.                                          *)
(***************************************************************************)
AllLinesAt(lines, d) == \A i \in 1..Len(lines) : LineIndent(lines[i]) = d

InEnabledFunction ==
  /\ Len(scopes[MainThread]) = 2
  /\ scopes[MainThread][2].kind = "CLogScopedIndent"
  /\ scopes[MainThread][2].m_enabled

C34_FunctionIndent ==
  LET depth == getIndent(m_indents, MainThread)
  IN  /\ (call.op = "functionEnter" /\ call.ret)
           => /\ call.entry => (call.lines # <<>> /\ AllLinesAt(call.lines, call.val))
              /\ InEnabledFunction
              /\ depth = call.val + 1
      /\ (call.op = "ALOG" /\ call.entry /\ InEnabledFunction)
           => AllLinesAt(call.lines, scopes[MainThread][2].depthAtEntry + 1)
      /\ (call.op = "functionExit" /\ call.guard.m_enabled)
           => /\ depth = call.guard.depthAtEntry
              /\ AllLinesAt(call.lines, call.guard.depthAtEntry)

\* A function entered at depth 1 with its Start logged returns with its End
\* logged on more than one line.
C34_Witness ==
  /\ call.op = "functionExit"
  /\ call.guard.m_enabled
  /\ call.guard.depthAtEntry = 1
  /\ call.entry
  /\ Len(call.lines) > 1

(***************************************************************************)
(* C35.  The lines of one entry appear contiguously in each sink: no line  *)
(* of an entry logged concurrently by another thread is written between    *)
(* them.  Each thread logs a two-line message of its own, so that the      *)
(* second line of an entry of thread t is known by its text: it must come  *)
(* directly after a first line of an entry of t.                           *)
(***************************************************************************)
FirstLine(t) == split(EntryMessages[t], "\n")[1]
SecondLine(t) == split(EntryMessages[t], "\n")[2]

C35_EntryLinesContiguous ==
  \A st \in Streams, t \in Threads :
    \A p \in 1..Len(streams[st]) :
      streams[st][p].text = SecondLine(t)
        => (p > 1 /\ streams[st][p - 1].text = FirstLine(t))

(***************************************************************************)
(* C35, amended.  The lines of one entry appear in each sink in the        *)
(* entry's order; lines of an entry logged concurrently by another thread  *)
(* may be written between them.  In every prefix of a stream there are at  *)
(* least as many first lines of thread t as second lines of thread t.      *)
(***************************************************************************)
CountText(lines, n, text) == Cardinality({ p \in 1..n : lines[p].text = text })

C35_EntryLinesInOrder ==
  \A st \in Streams, t \in Threads :
    \A n \in 1..Len(streams[st]) :
      CountText(streams[st], n, SecondLine(t)) <= CountText(streams[st], n, FirstLine(t))

\* The only sink's stream, in which a line of the other thread stands between
\* the two lines of an entry of the main thread.
C35_Witness ==
  \E st \in Streams :
    /\ Len(m_sinks) = 1
    /\ Len(streams[st]) >= 3
    /\ streams[st][1].text = FirstLine(MainThread)
    /\ streams[st][2].text = FirstLine("t2")
    /\ streams[st][3].text = SecondLine(MainThread)

(***************************************************************************)
(* C36.  All threads use one registry: instance() returns the same object  *)
(* on every call from every thread, also when the first calls are made     *)
(* concurrently, so that configuration applied through one call is never   *)
(* lost and is visible to all later calls.  Stated for the calls in        *)
(* progress: the objects instance returned to them are one object, and an  *)
(* ALOG that started when a setupFilters had enabled its channel and level *)
(* finds them enabled (no call of the specification disables them).        *)
(***************************************************************************)
C36_SameObject ==
  \A t, u \in Threads :
    (frame[t].instance # NullInstance /\ frame[u].instance # NullInstance)
      => frame[t].instance = frame[u].instance

C36_ConfigurationKept ==
  \A t \in Threads :
    (pc[t] = "return" /\ frame[t].op = "ALOG" /\ frame[t].configs # {}) => frame[t].ret

C36_OneRegistry == C36_SameObject /\ C36_ConfigurationKept

(***************************************************************************)
(* C37.  In every state reachable after the registry's first access, given *)
(* that setFormatter is only called with a non-null formatter, an active   *)
(* formatter is installed, so a log call is never dropped for lack of a    *)
(* formatter.  Stated for the threads instance has returned to: while a    *)
(* thread holds the reference it was given m_formatter is not empty, and   *)
(* no ALOG returns from log at the test of m_formatter.                    *)
(***************************************************************************)
C37_FormatterSet ==
  (\E t \in Threads : frame[t].instance # NullInstance) => m_formatter # NullFormatter

C37_NoLogDropped == \A t \in Threads : ~frame[t].dropped

C37_FormatterInstalled == C37_FormatterSet /\ C37_NoLogDropped

\* With the registry object in place and one thread calling, whatever the
\* configuration calls, reset and setFormatter included, a formatter is set.
C37_WhenInstanceExists == m_pInstance # NullInstance /\ m_formatter # NullFormatter

(***************************************************************************)
(* C38.  Every log call that passes the filter writes at least one line to *)
(* every registered sink, for every message, the empty message included,   *)
(* and every map, the empty map included, under both formatters.           *)
(***************************************************************************)
Logged == call.op \in {"ALOG", "ALOG_MAP"} /\ call.ret /\ m_sinks # <<>>

InEverySink(lines) ==
  \A k \in 1..Len(m_sinks), i \in 1..Len(lines) :
    \E p \in 1..Len(streams[m_sinks[k].sink]) : streams[m_sinks[k].sink][p] = lines[i]

C38_AtLeastOneLine ==
  Logged => (call.lines # <<>> /\ InEverySink(call.lines))

(***************************************************************************)
(* C38, amended.  Every log call that passes the filter writes at least    *)
(* one line to every registered sink, for every message and every map,     *)
(* under the JSON formatter, and under the plain-text formatter unless the *)
(* message is empty and the entry's map (the call's map with the thread's  *)
(* metadata, when enabled and present) is empty: then it writes no line.   *)
(***************************************************************************)
EmptyEntry ==
  /\ call.op = "ALOG_MAP"
  /\ DOMAIN logMapData(call.a_mapData, m_doMetadata, m_metadata, MainThread) = {}

C38_AtLeastOneLineUnlessEmpty ==
  Logged => /\ (call.lines = <<>>) <=> (m_formatter = StdFormatter /\ EmptyEntry)
            /\ InEverySink(call.lines)

\* ALOG_MAP with the empty map under the plain-text formatter, a sink being
\* registered, and the same call once metadata is attached.
C38_Witness ==
  /\ Logged /\ call.op = "ALOG_MAP" /\ call.a_mapData = EmptyMap
  /\ m_formatter = StdFormatter
  /\ call.lines # <<>>

=============================================================================
